---- MODULE Spec2Model ----
(***************************************************************************)
(* Fantasy scoring and roster-lifecycle engine of EngineLeague:            *)
(* squad validation, roster operations (create, edit, transfers, lineup,   *)
(* substitute, captaincy), match updates and the points pipeline.          *)
(***************************************************************************)
EXTENDS Integers, Sequences, FiniteSets, TLC

VARIABLES
  teams,      \* the FantasyTeam collection: team id -> document
  now,        \* the wall clock (new Date())
  deadline,   \* Gameweek.deadline by gameweek number (NoDeadline: null)
  resp,       \* the outcome of the last request or pipeline run, numbered by seq
  price,      \* Player.price of every Player document
  matches,    \* the Match collection: match id -> document
  stats,      \* Player statistics: goals, assists, fantasyStats, totalFantasyPoints
  standings,  \* the real-world Team table: matchesPlayed, wins, ..., points
  run,        \* the computePointsForMatch call in flight and its open transaction
  applied,    \* history: transfers applied per team while each gameweek was upcoming
  lastRun,    \* history: the match of the last committed pipeline run, and whether
              \* only fulltime toggles of that match were requested since
  inflight,   \* concurrent requests that have loaded their document and not yet saved
  done,       \* history: the concurrent requests that have answered
  vIn,        \* validator harness: the candidate list handed to validateAndEnrichSquad
  vBudget,    \* validator harness: the budget handed to validateAndEnrichSquad
  vOut        \* validator harness: the value validateAndEnrichSquad returned

harness == <<vIn, vBudget, vOut>>
league == <<matches, stats, standings>>
history == <<applied, lastRun>>
concurrent == <<inflight, done>>

vars == <<teams, now, deadline, resp, price, matches, stats, standings, run,
          applied, lastRun, inflight, done, vIn, vBudget, vOut>>

NULL == "null"

-----------------------------------------------------------------------------
(* Squad rules, controllers/fantasy.js lines 27-36 *)
SQUAD_SIZE == 15
GK_REQUIRED == 2
DEF_MIN == 4
DEF_MAX == 5
MID_MIN == 4
MID_MAX == 5
FWD_MIN == 2
FWD_MAX == 3
MAX_FROM_SAME_TEAM == 3
MAX_FREE_TRANSFERS_PER_GW == 3

-----------------------------------------------------------------------------
(* The Player collection: 19 documents.  Players 1..15 form a squad that   *)
(* satisfies every rule; 16..19 are one spare player per category.         *)
Players == 1..19

\* An id no Player document has (a deleted or mistyped player id).
UnknownPlayer == Cardinality(Players) + 1

PlayerIds == Players \cup {UnknownPlayer}

\* Player.position (models/Felteam.js line 96: enum of position codes)
PlayerPosition ==
  << "GK", "GK", "CB", "LB", "RB", "CB", "LB", "CM", "DM", "AM",
     "CM", "DM", "ST", "CF", "LW", "GK", "CB", "CM", "ST" >>

\* Player.team: the real-world team of each player
PlayerTeam ==
  << "A", "B", "A", "B", "C", "A", "E", "D", "B", "C",
     "D", "E", "C", "D", "E", "A", "F", "F", "F" >>

\* Two price lists within the schema's 7..12: under the first the squad
\* 1..15 costs 148, under the second defender 3 costs 3 more and the squad 151.
PriceList1 ==
  << 10, 10, 9, 10, 10, 10, 10, 9, 10, 10,
     10, 10, 10, 10, 10, 10, 12, 10, 12 >>

PriceList2 == [PriceList1 EXCEPT ![3] = 12]

PriceTables == {PriceList1, PriceList2}

\* The budgets a request may carry (req.body.budget, default 150)
Budgets == {148, 150}

-----------------------------------------------------------------------------
(* Helpers *)
Range(s) == {s[i] : i \in DOMAIN s}

RECURSIVE SumOver(_, _)
\* Sum of f[x] over the finite set S
SumOver(S, f) ==
  IF S = {} THEN 0
  ELSE LET x == CHOOSE y \in S : TRUE
       IN f[x] + SumOver(S \ {x}, f)

\* Categories that count an attacking midfielder as a forward
SquadCategoryAttacking(pos) ==
  IF pos = "GK" THEN "GK"
  ELSE IF pos \in {"CB", "LB", "RB"} THEN "DEF"
  ELSE IF pos \in {"CM", "DM"} THEN "MID"
  ELSE IF pos \in {"AM", "ST", "CF", "LW", "RW"} THEN "FWD"
  ELSE "MID"

\* validateAndEnrichSquad's position categories (fantasy.js lines 98-104)
SquadCategory(pos) ==
  IF pos = "GK" THEN "GK"
  ELSE IF pos \in {"CB", "LB", "RB"} THEN "DEF"
  ELSE IF pos \in {"CM", "DM", "AM"} THEN "MID"
  ELSE IF pos \in {"ST", "CF", "LW", "RW"} THEN "FWD"
  ELSE "MID"

\* posCounts[cat]: the loaded player documents of a category
CountCat(found, cat) ==
  Cardinality({p \in found : SquadCategory(PlayerPosition[p]) = cat})

\* teamCounts[teamId]
CountTeam(found, t) == Cardinality({p \in found : PlayerTeam[p] = t})

RealTeams == Range(PlayerTeam)

\* The roster entry the validator stamps (fantasy.js lines 113-119)
EnrichedEntry(p, pr) ==
  [ isStarting |-> FALSE,
    playerPrice |-> pr[p],
    position |-> PlayerPosition[p],
    team |-> PlayerTeam[p] ]

Rejected(msg) == [valid |-> FALSE, message |-> msg, enriched |-> << >>, totalPrice |-> 0]

\* A validator without the limit on players of one real team
TeamCapUnchecked(found) == FALSE

\* teamCounts over MAX_FROM_SAME_TEAM (fantasy.js lines 104-107, 121)
TeamCapExceeded(found) == \E t \in RealTeams : CountTeam(found, t) > MAX_FROM_SAME_TEAM

\* A validator that also turns away a squad costing exactly the budget
BudgetExceededAtLimit(totalPrice, budget) == totalPrice >= budget

\* totalPrice > budget (fantasy.js line 124)
BudgetExceeded(totalPrice, budget) == totalPrice > budget

(* validateAndEnrichSquad(playersInput, budget), fantasy.js lines 76-138.   *)
(* playersInput is the list of candidate ids; Player.find with $in loads   *)
(* each existing document once, whatever the list repeats.  A list of the  *)
(* wrong length throws (message "SquadSize").                              *)
validateAndEnrichSquad(playersInput, budget, pr) ==
  IF Len(playersInput) # SQUAD_SIZE THEN Rejected("SquadSize")
  ELSE
    LET found == Range(playersInput) \cap Players
        totalPrice == SumOver(found, pr)
    IN IF Cardinality(found) # SQUAD_SIZE THEN Rejected("NotFound")
       ELSE IF TeamCapExceeded(found) THEN Rejected("TeamCap")
       ELSE IF CountCat(found, "GK") # GK_REQUIRED THEN Rejected("GK")
       ELSE IF CountCat(found, "DEF") < DEF_MIN \/ CountCat(found, "DEF") > DEF_MAX
         THEN Rejected("DEF")
       ELSE IF CountCat(found, "MID") < MID_MIN \/ CountCat(found, "MID") > MID_MAX
         THEN Rejected("MID")
       ELSE IF CountCat(found, "FWD") < FWD_MIN \/ CountCat(found, "FWD") > FWD_MAX
         THEN Rejected("FWD")
       ELSE IF BudgetExceeded(totalPrice, budget) THEN Rejected("Budget")
       ELSE [ valid |-> TRUE,
              message |-> "",
              enriched |-> [p \in found |-> EnrichedEntry(p, pr)],
              totalPrice |-> totalPrice ]

-----------------------------------------------------------------------------
(* Candidate lists for the validator: the squad 1..15 and every list that  *)
(* differs from it in one place (a spare player, a player named twice, an  *)
(* unknown id), one that differs in two, and one list that is too short.   *)
BaseSquad == [i \in 1..SQUAD_SIZE |-> i]

OneOff(sq) == {[sq EXCEPT ![i] = q] : i \in 1..SQUAD_SIZE, q \in PlayerIds}

ShortSquad == [i \in 1..(SQUAD_SIZE - 1) |-> i]

\* Two spare players at once: defenders 4 and 5 replaced by the spare
\* midfielder and the spare forward (leaves 3 defenders).
TwoOff == [BaseSquad EXCEPT ![4] = 18, ![5] = 19]

CandidateSquads == OneOff(BaseSquad) \cup {ShortSquad, TwoOff}

\* The harness before the call: nothing returned yet
NotCalled == [called |-> FALSE]

Returned(v) == "valid" \in DOMAIN v

-----------------------------------------------------------------------------
(* Gameweek / deadline resolver *)

\* The Gameweek collection: three gameweeks, the last one a knockout
\* placeholder whose deadline is still null.
Gameweeks == 1..3

\* Gameweek.deadline: null
NoDeadline == 0

\* No gameweek document (findOne returned null)
NoGameweek == 0

Min(S) == CHOOSE x \in S : \A y \in S : x <= y
Max(S) == CHOOSE x \in S : \A y \in S : x >= y

\* A query with `$gte` for `$gt`: a gameweek is still open at its deadline
FirstOpenFrom(gws, dl, t) ==
  LET open == {g \in gws : dl[g] # NoDeadline /\ dl[g] >= t}
  IN IF open = {} THEN NoGameweek ELSE Min(open)

\* Gameweek.findOne({deadline: {$ne: null, $gt: t}}).sort({number: 1}) on a
\* collection that holds the gameweeks numbered gws
FirstOpenIn(gws, dl, t) ==
  LET open == {g \in gws : dl[g] # NoDeadline /\ dl[g] > t}
  IN IF open = {} THEN NoGameweek ELSE Min(open)

\* The query on the collection of the league at hand
FirstOpenGameweek(dl, t) == FirstOpenIn(Gameweeks, dl, t)

\* getUpcomingGameweek() evaluated at clock reading t (fantasy.js lines 63-66)
getUpcomingGameweek(dl, t) == FirstOpenGameweek(dl, t)

\* findEffectiveGameweekForTime(time) on the collection gws (fantasy.js
\* lines 48-57)
EffectiveGameweekIn(gws, dl, t) ==
  IF FirstOpenIn(gws, dl, t) # NoGameweek THEN FirstOpenIn(gws, dl, t)
  ELSE IF gws # {} THEN Max(gws) + 1
  ELSE NoGameweek

\* findEffectiveGameweekForTime(time) (fantasy.js lines 48-57)
findEffectiveGameweekForTime(dl, t) == EffectiveGameweekIn(Gameweeks, dl, t)

-----------------------------------------------------------------------------
(* FantasyTeam documents and the roster operations *)

Users == {"u1", "u2"}

\* captain / viceCaptain: null
NoPlayer == 0

\* Starting-XI position categories: normalizeShort / normalizePosShort /
\* normalizePosition (fantasy.js lines 407-414, 544-551, 1139-1146)
LineupCategory(pos) ==
  IF pos = "GK" THEN "GK"
  ELSE IF pos \in {"CB", "LB", "RB", "LWB", "RWB"} THEN "DEF"
  ELSE IF pos \in {"CM", "DM", "AM", "LM", "RM"} THEN "MID"
  ELSE IF pos \in {"ST", "CF", "LW", "RW", "FW"} THEN "FWD"
  ELSE "MID"

\* The ids of the roster entries flagged isStarting
StartingIds(roster) == {p \in DOMAIN roster : roster[p].isStarting}

\* Starting entries of a category, by the position cached on the entry
StartingOf(roster, cat) ==
  Cardinality({p \in StartingIds(roster) : LineupCategory(roster[p].position) = cat})

\* The formation rule shared by makeTransfers, setLineup and
\* validateLineupCounts: the first violated rule, "" when none
FormationError(nGK, nDEF, nMID, nFWD) ==
  IF nGK # 1 THEN "FormationGK"
  ELSE IF nDEF < 3 \/ nDEF > 5 THEN "FormationDEF"
  ELSE IF nMID < 3 \/ nMID > 5 THEN "FormationMID"
  ELSE IF nFWD < 1 \/ nFWD > 3 THEN "FormationFWD"
  ELSE ""

\* What a handler hands back: the HTTP status, the reason of a rejection and
\* the team document as the handler holds it in memory at that point
Result(status, reason, team) == [status |-> status, reason |-> reason, team |-> team]

\* new FantasyTeam({...}) in createFantasyTeam (fantasy.js lines 164-178)
NewTeam(user, enriched, budget, effectiveGameweek) ==
  [ user |-> user,
    players |-> enriched,
    budget |-> budget,
    points |-> 0,
    captain |-> NoPlayer,
    viceCaptain |-> NoPlayer,
    effectiveGameweek |-> effectiveGameweek,
    transfers |-> [lastResetGw |-> effectiveGameweek, freeTransfersUsedInGw |-> 0],
    gameweekPoints |-> << >>,
    matchPoints |-> << >>,
    lineupSnapshots |-> << >>,
    ver |-> 0 ]

\* Handlers that let any signed-in user through
OwnerUnchecked(team, user) == FALSE

\* String(team.user) !== String(userId) (fantasy.js lines 203, 258, 487,
\* 1192, 1274)
NotOwner(team, user) == team.user # user

\* FantasyTeam.findOne({user: userId}) finds a document
HasTeam(ts, user) == \E id \in DOMAIN ts : ts[id].user = user

\* createFantasyTeam after the body checks (fantasy.js lines 154-180):
\* `existing` is what findOne({user}) returned, t the creation time
createFantasyTeamIn(gws, existing, user, squad, budget, dl, t, pr) ==
  LET validation == validateAndEnrichSquad(squad, budget, pr)
  IN IF existing THEN Result(400, "TeamAlreadyCreated", NULL)
     ELSE IF ~validation.valid THEN Result(400, validation.message, NULL)
     ELSE Result(201, "",
                 NewTeam(user, validation.enriched, budget,
                         EffectiveGameweekIn(gws, dl, t)))

\* createFantasyTeam in the league at hand
createFantasyTeamResult(existing, user, squad, budget, dl, t, pr) ==
  createFantasyTeamIn(Gameweeks, existing, user, squad, budget, dl, t, pr)

\* A handler that carries the counter over from gameweek to gameweek
ResetQuotaNever(team, upcoming) == team

\* The quota reset at the head of makeTransfers (fantasy.js lines 271-275)
ResetQuota(team, upcoming) ==
  IF team.transfers.lastResetGw # upcoming
  THEN [team EXCEPT !.transfers = [lastResetGw |-> upcoming, freeTransfersUsedInGw |-> 0]]
  ELSE team

\* freeLeft (fantasy.js line 278)
FreeLeft(team) ==
  LET left == MAX_FREE_TRANSFERS_PER_GW - team.transfers.freeTransfersUsedInGw
  IN IF left > 0 THEN left ELSE 0

\* The quota check (fantasy.js line 279)
QuotaExceeded(numRequested, freeLeft) == numRequested > freeLeft

\* A guard that is still open at the deadline itself
DeadlinePassedLate(t, dl) == t > dl

\* The deadline guard (fantasy.js lines 210, 266, 532): closed at the deadline
DeadlinePassed(t, dl) == t >= dl

Outs(transfers) == {transfers[i].out : i \in DOMAIN transfers}
Ins(transfers) == {transfers[i].in : i \in DOMAIN transfers}

\* A newRoster that pairs the incoming players with the outgoing entries in
\* reverse order of the batch
NewRosterCrossed(roster, transfers, pr) ==
  LET kept == DOMAIN roster \ Outs(transfers)
      pairOf(q) == CHOOSE i \in DOMAIN transfers : transfers[i].in = q
  IN [p \in kept \cup Ins(transfers) |->
        IF p \in kept THEN roster[p]
        ELSE [ isStarting |-> roster[transfers[Len(transfers) + 1 - pairOf(p)].out].isStarting,
               playerPrice |-> pr[p],
               position |-> PlayerPosition[p],
               team |-> PlayerTeam[p] ]]

\* newRoster (fantasy.js lines 324-356): the entries kept plus one entry per
\* pair, each incoming entry taking the outgoing entry's isStarting.  The
\* caller has checked that the incoming ids are distinct existing players.
NewRoster(roster, transfers, pr) ==
  LET kept == DOMAIN roster \ Outs(transfers)
      pairOf(q) == CHOOSE i \in DOMAIN transfers : transfers[i].in = q
  IN [p \in kept \cup Ins(transfers) |->
        IF p \in kept THEN roster[p]
        ELSE [ isStarting |-> roster[transfers[pairOf(p)].out].isStarting,
               playerPrice |-> pr[p],
               position |-> PlayerPosition[p],
               team |-> PlayerTeam[p] ]]

\* newRoster.length: entries kept plus one pushed per pair
NewRosterLength(roster, transfers) ==
  Cardinality(DOMAIN roster \ Outs(transfers)) + Len(transfers)

\* A list naming each player of a set once
RECURSIVE SetToSeq(_)
SetToSeq(S) ==
  IF S = {} THEN << >>
  ELSE LET x == Min(S) IN << x >> \o SetToSeq(S \ {x})

\* A makeTransfers without its final check of the starting XI
TransferLineupUnchecked(enriched) == ""

\* makeTransfers' final check (fantasy.js lines 400-423): eleven entries
\* flagged starting, then the formation rule; "" when the roster passes
TransferLineupError(enriched) ==
  IF Cardinality(StartingIds(enriched)) # 11 THEN "StartingCount"
  ELSE FormationError(StartingOf(enriched, "GK"), StartingOf(enriched, "DEF"),
                      StartingOf(enriched, "MID"), StartingOf(enriched, "FWD"))

\* makeTransfers (fantasy.js lines 256-432) on the loaded document `team`:
\* `upcoming` is what getUpcomingGameweek returned, t the handler's `now`.
makeTransfersResult(team, user, transfers, upcoming, dl, t, pr) ==
  IF NotOwner(team, user) THEN Result(403, "NotAuthorized", team)
  ELSE IF upcoming = NoGameweek THEN Result(400, "NoActiveGameweek", team)
  ELSE IF DeadlinePassed(t, dl[upcoming]) THEN Result(403, "DeadlinePassed", team)
  ELSE
    LET t1 == ResetQuota(team, upcoming)
        numRequested == Len(transfers)
        roster == t1.players
        outs == Outs(transfers)
        ins == Ins(transfers)
        \* captain / vice cleared in memory when transferred out (lines 332-333)
        t2 == [t1 EXCEPT
                 !.captain = IF @ # NoPlayer /\ @ \in outs THEN NoPlayer ELSE @,
                 !.viceCaptain = IF @ # NoPlayer /\ @ \in outs THEN NoPlayer ELSE @]
    IN IF QuotaExceeded(numRequested, FreeLeft(t1)) THEN Result(400, "Quota", t1)
       ELSE IF ~(outs \subseteq DOMAIN roster) THEN Result(400, "OutNotInSquad", t1)
       ELSE IF ins \cap DOMAIN roster # {} THEN Result(400, "InAlreadyInSquad", t1)
       ELSE IF Cardinality(ins \cap Players) # Len(transfers)
         THEN Result(404, "IncomingNotFound", t1)
       ELSE IF NewRosterLength(roster, transfers) # Cardinality(DOMAIN roster)
         THEN Result(400, "RosterSizeMismatch", t2)
       ELSE
         LET newRoster == NewRoster(roster, transfers, pr)
             validation == validateAndEnrichSquad(SetToSeq(DOMAIN newRoster), t2.budget, pr)
             enriched == [p \in DOMAIN validation.enriched |->
                            [validation.enriched[p] EXCEPT !.isStarting = newRoster[p].isStarting]]
             lineup == TransferLineupError(enriched)
         IN IF \E tm \in RealTeams :
                 Cardinality({p \in DOMAIN newRoster : newRoster[p].team = tm}) > 3
              THEN Result(400, "TeamCap", t2)
            ELSE IF ~validation.valid THEN Result(400, validation.message, t2)
            ELSE IF lineup # "" THEN Result(400, lineup, t2)
            ELSE Result(200, "",
                   [t2 EXCEPT
                      !.players = enriched,
                      !.transfers = [ lastResetGw |-> upcoming,
                                      freeTransfersUsedInGw |->
                                        t2.transfers.freeTransfersUsedInGw + numRequested ]])

\* editFantasyTeam (fantasy.js lines 200-226) on the loaded document:
\* req.players is present when hasPlayers; team name and logo are not modelled.
editFantasyTeamResult(team, user, hasPlayers, squad, upcoming, dl, t, pr) ==
  IF NotOwner(team, user) THEN Result(403, "NotAuthorized", team)
  ELSE IF upcoming # NoGameweek /\ dl[upcoming] # NoDeadline /\ DeadlinePassed(t, dl[upcoming])
    THEN Result(403, "DeadlinePassed", team)
  ELSE IF ~hasPlayers THEN Result(200, "", team)
  ELSE LET validation == validateAndEnrichSquad(squad, team.budget, pr)
       IN IF ~validation.valid THEN Result(400, validation.message, team)
          ELSE Result(200, "", [team EXCEPT !.players = validation.enriched])

\* Key of the durable fallback snapshot in lineupSnapshots ("default")
DefaultKey == 0

\* target of a setLineup request: "default", a gameweek number, or absent
TargetDefault == 0
TargetAbsent == -1

\* targetGw of setLineup (fantasy.js lines 512-522): null for "default", the
\* number given, or the upcoming gameweek when the request names none
TargetGameweek(target, up0) ==
  IF target = TargetAbsent THEN up0
  ELSE IF target = TargetDefault THEN NoGameweek
  ELSE target

\* counts[cat] over the list of starting ids, a repeated id counted each time
ListedOf(roster, ids, cat) ==
  Cardinality({i \in DOMAIN ids : LineupCategory(roster[ids[i]].position) = cat})

\* setLineup (fantasy.js lines 476-599) on the loaded document.  up0 is the
\* gameweek the first getUpcomingGameweek() returned (used when the request
\* names no target), up1 the one the second call returned, t the handler's
\* `now`.  The snapshot is assigned as a property of the Map lineupSnapshots
\* (lines 574-578), which a Mongoose Map does not store: the document's
\* snapshots are left as they were.
setLineupResult(team, user, ids, captain, viceCaptain, target, up0, up1, dl, t) ==
  LET targetGw == TargetGameweek(target, up0)
      startingSet == Range(ids)
      formation == FormationError(ListedOf(team.players, ids, "GK"),
                                  ListedOf(team.players, ids, "DEF"),
                                  ListedOf(team.players, ids, "MID"),
                                  ListedOf(team.players, ids, "FWD"))
  IN IF Len(ids) # 11 THEN Result(400, "StartingCount", team)
     ELSE IF captain = NoPlayer THEN Result(400, "CaptainRequired", team)
     ELSE IF NotOwner(team, user) THEN Result(403, "NotAuthorized", team)
     ELSE IF ~(startingSet \subseteq DOMAIN team.players)
       THEN Result(400, "StartingNotInRoster", team)
     ELSE IF captain \notin startingSet THEN Result(400, "CaptainNotStarting", team)
     ELSE IF viceCaptain # NoPlayer /\ viceCaptain \notin startingSet
       THEN Result(400, "ViceNotStarting", team)
     ELSE IF target = TargetAbsent /\ up0 = NoGameweek
       THEN Result(400, "NoActiveGameweek", team)
     ELSE IF targetGw # NoGameweek /\ up1 # NoGameweek /\ targetGw = up1
             /\ DeadlinePassed(t, dl[up1])
       THEN Result(403, "DeadlinePassed", team)
     ELSE IF formation # "" THEN Result(400, formation, team)
     ELSE Result(200, "",
            [team EXCEPT
               !.captain = captain,
               !.viceCaptain = viceCaptain,
               !.players = [p \in DOMAIN team.players |->
                              [team.players[p] EXCEPT !.isStarting = (p \in startingSet)]],
               !.effectiveGameweek = IF targetGw # NoGameweek THEN targetGw ELSE @])

\* A substitution that is not re-validated
validateLineupCountsSkipped(roster) == ""

\* validateLineupCounts (fantasy.js lines 1161-1170)
validateLineupCounts(roster) ==
  IF Cardinality(StartingIds(roster)) # 11 THEN "StartingCount"
  ELSE FormationError(StartingOf(roster, "GK"), StartingOf(roster, "DEF"),
                      StartingOf(roster, "MID"), StartingOf(roster, "FWD"))

\* A lineup snapshot as substitutePlayers, setCaptainVice and the pipeline
\* store it with lineupSnapshots.set (timestamps not modelled)
Snapshot(starting, captain, viceCaptain, isDefault) ==
  [starting |-> starting, captain |-> captain, viceCaptain |-> viceCaptain,
   isDefault |-> isDefault]

\* f with key k set to v (Map.set)
MapSet(f, k, v) == [x \in DOMAIN f \cup {k} |-> IF x = k THEN v ELSE f[x]]

\* substitutePlayers (fantasy.js lines 1188-1247) on the loaded document
substitutePlayersResult(team, user, outId, inId) ==
  IF NotOwner(team, user) THEN Result(403, "NotAuthorized", team)
  ELSE IF outId \notin DOMAIN team.players THEN Result(400, "OutNotInSquad", team)
  ELSE IF inId \notin DOMAIN team.players THEN Result(400, "InNotInSquad", team)
  ELSE
    LET outPos == LineupCategory(team.players[outId].position)
        inPos == LineupCategory(team.players[inId].position)
        newPlayers == [p \in DOMAIN team.players |->
                         IF p = outId THEN [team.players[p] EXCEPT !.isStarting = FALSE]
                         ELSE IF p = inId THEN [team.players[p] EXCEPT !.isStarting = TRUE]
                         ELSE team.players[p]]
        vErr == validateLineupCounts(newPlayers)
    IN IF (outPos = "GK" \/ inPos = "GK") /\ ~(outPos = "GK" /\ inPos = "GK")
         THEN Result(400, "GoalkeeperSwap", team)
       ELSE IF vErr # "" THEN Result(400, vErr, team)
       ELSE Result(200, "",
              [team EXCEPT
                 !.players = newPlayers,
                 !.lineupSnapshots =
                    MapSet(@, DefaultKey,
                           Snapshot(StartingIds(newPlayers), team.captain, team.viceCaptain, TRUE))])

\* setCaptainVice (fantasy.js lines 1270-1311) on the loaded document;
\* NoPlayer for a captain or vice-captain the request does not give
setCaptainViceResult(team, user, captain, viceCaptain) ==
  LET startingIds == StartingIds(team.players)
      t1 == IF captain # NoPlayer THEN [team EXCEPT !.captain = captain] ELSE team
      t2 == IF viceCaptain # NoPlayer THEN [t1 EXCEPT !.viceCaptain = viceCaptain] ELSE t1
  IN IF NotOwner(team, user) THEN Result(403, "NotAuthorized", team)
     ELSE IF captain # NoPlayer /\ captain \notin startingIds
       THEN Result(400, "CaptainNotStarting", team)
     ELSE IF viceCaptain # NoPlayer /\ viceCaptain \notin startingIds
       THEN Result(400, "ViceNotStarting", t1)
     ELSE Result(200, "",
            [t2 EXCEPT !.lineupSnapshots =
               MapSet(@, DefaultKey, Snapshot(startingIds, t2.captain, t2.viceCaptain, TRUE))])

\* A handler that saves the document it holds whatever the outcome
PersistAlways(stored, out) == out.team

\* `await team.save()` is reached only on the success path of a handler: a
\* rejected request leaves the stored document as it was
Persist(stored, out) == IF out.status = 200 THEN out.team ELSE stored

-----------------------------------------------------------------------------
(* Matches: updateMatch (unnamed/part_011) and Match.js *)

\* Two fixtures: match 1 (A at home to B) belongs to gameweek 1, match 2
\* (C at home to D) to gameweek 2.
Matches == 1..2
MatchHome == << "A", "C" >>
MatchAway == << "B", "D" >>
FixtureGameweek == << 1, 2 >>

\* Match.date: not set
NoDate == 0

\* A team reference that is null or absent
NoTeam == ""

\* new Match({homeTeam, awayTeam, date: null}) as the fixture generator
\* creates it (fixture.js lines 110-118) with the schema defaults of Match.js
\* `${homeScore}-${awayScore}` (Match.js line 154)
ResultText(homeScore, awayScore) == ToString(homeScore) \o "-" \o ToString(awayScore)

NewMatch(m, date) ==
  [ homeTeam |-> MatchHome[m], awayTeam |-> MatchAway[m], date |-> date,
    lineups |-> [home |-> {}, away |-> {}],
    goals |-> << >>, cards |-> << >>, substitutions |-> << >>,
    manOftheMatch |-> NoPlayer,
    homeScore |-> 0, awayScore |-> 0, result |-> ResultText(0, 0),
    fulltime |-> FALSE, gameweek |-> NoGameweek,
    fantasyProcessed |-> FALSE, fantasyTeamPoints |-> << >>,
    priceUpdatesApplied |-> FALSE ]

\* resolveIncomingTeam (part_011 lines 108-133): "home"/"away" name a side,
\* a team id stands for itself, anything else is null
resolveIncomingTeam(val, homeId, awayId) ==
  IF val = "home" THEN homeId
  ELSE IF val = "away" THEN awayId
  ELSE IF val \in RealTeams THEN val
  ELSE NoTeam

\* goalObj pushed to match.goals (part_011 lines 141-177)
GoalObj(g, homeId, awayId) ==
  LET named == resolveIncomingTeam(g.team, homeId, awayId)
      incomingTeamId == IF named # NoTeam THEN named
                        ELSE IF g.scorer \in Players THEN PlayerTeam[g.scorer]
                        ELSE homeId
      beneficiaryTeamId == IF g.ownGoal
                           THEN (IF incomingTeamId = homeId THEN awayId ELSE homeId)
                           ELSE incomingTeamId
  IN [ team |-> beneficiaryTeamId,
       scorer |-> IF g.ownGoal THEN NoPlayer ELSE g.scorer,
       assist |-> g.assist,
       ownGoal |-> g.ownGoal,
       ownBy |-> IF g.ownGoal THEN g.scorer ELSE NoPlayer ]

\* Number of places of a list that satisfy a test
CountIn(s, Test(_)) == Cardinality({i \in DOMAIN s : Test(s[i])})

\* recomputeScoresFromGoals (Match.js lines 128-155)
recomputeScoresFromGoals(match) ==
  LET forHome(g) == g.team # NoTeam /\ g.team = match.homeTeam
      forAway(g) == g.team # NoTeam /\ g.team # match.homeTeam /\ g.team = match.awayTeam
  IN [match EXCEPT !.homeScore = CountIn(match.goals, forHome),
                   !.awayScore = CountIn(match.goals, forAway),
                   !.result = ResultText(CountIn(match.goals, forHome),
                                         CountIn(match.goals, forAway))]

\* Player.goals / Player.assists after the goals of one request: only goals
\* that are not own goals count (part_011 lines 182-203)
StatsAfterGoals(st, goals) ==
  [p \in DOMAIN st |->
     LET scored(g) == ~g.ownGoal /\ g.scorer = p
         assisted(g) == ~g.ownGoal /\ g.assist = p
     IN [st[p] EXCEPT !.goals = @ + CountIn(goals, scored),
                      !.assists = @ + CountIn(goals, assisted)]]

-----------------------------------------------------------------------------
(* The points pipeline: computePointsForMatch (fantasy.js lines 763-1093) *)

\* Object.keys(perfByPlayer): everyone the match's events name (lines 786-844)
PerfPlayers(match) ==
  ( {match.goals[i].scorer : i \in DOMAIN match.goals}
    \cup {match.goals[i].assist : i \in DOMAIN match.goals}
    \cup {match.goals[i].ownBy : i \in DOMAIN match.goals}
    \cup {match.cards[i].player : i \in DOMAIN match.cards}
    \cup {match.manOftheMatch}
    \cup match.lineups.home \cup match.lineups.away
    \cup {match.substitutions[i].playerIn : i \in DOMAIN match.substitutions}
    \cup {match.substitutions[i].playerOut : i \in DOMAIN match.substitutions} )
  \ {NoPlayer}

\* perfByPlayer[p] (lines 786-842)
Perf(match, p) ==
  LET scored(g) == g.scorer = p
      assisted(g) == g.assist = p
      yellow(c) == c.player = p /\ c.type = "Yellow"
      red(c) == c.player = p /\ c.type = "Red"
      cameOn(s) == s.playerIn = p
  IN [ goals |-> CountIn(match.goals, scored),
       assists |-> CountIn(match.goals, assisted),
       yellowCards |-> CountIn(match.cards, yellow),
       redCard |-> CountIn(match.cards, red) > 0,
       manOfTheMatch |-> match.manOftheMatch = p,
       started |-> p \in match.lineups.home \cup match.lineups.away,
       subOn |-> CountIn(match.substitutions, cameOn) > 0 ]

\* posCat of the pipeline (lines 904-909)
PointsCategory(pos) ==
  IF pos = "GK" THEN "GK"
  ELSE IF pos \in {"CB", "LB", "RB"} THEN "DEF"
  ELSE IF pos \in {"CM", "DM", "AM"} THEN "MID"
  ELSE IF pos \in {"ST", "CF", "LW", "RW"} THEN "FWD"
  ELSE "MID"

\* A scoring that knows appearance, goals and assists only
calculatePointsWithoutBonuses(perf, posCategory, concededGoals, started, subOn, teamOutcome) ==
  (IF started THEN 2 ELSE IF subOn THEN 1 ELSE 0) + 4 * perf.goals + 3 * perf.assists

\* calculatePlayerMatchPoints (fantasy.js lines 713-750); teamOutcome "" is null
calculatePlayerMatchPoints(perf, posCategory, concededGoals, started, subOn, teamOutcome) ==
  (IF started THEN 2 ELSE IF subOn THEN 1 ELSE 0)
  + (IF perf.goals > 0
     THEN (IF posCategory \in {"GK", "DEF"} THEN 6 * perf.goals
           ELSE IF posCategory = "MID" THEN 5 * perf.goals
           ELSE 4 * perf.goals)
     ELSE 0)
  + 3 * perf.assists
  + (IF perf.manOfTheMatch THEN 3 ELSE 0)
  - perf.yellowCards
  - (IF perf.redCard THEN 3 ELSE 0)
  + (IF started /\ posCategory \in {"GK", "DEF"} /\ concededGoals = 0 THEN 4 ELSE 0)
  + (IF started /\ posCategory = "MID" /\ concededGoals = 0 THEN 1 ELSE 0)
  + (IF (started \/ subOn) /\ teamOutcome # ""
     THEN (IF teamOutcome = "win" THEN 3 ELSE IF teamOutcome = "draw" THEN 2 ELSE 1)
     ELSE 0)

\* outcomeByTeam[teamId] (lines 884-894), "" for a team not in the match
OutcomeOf(match, teamId) ==
  IF teamId = match.homeTeam
  THEN (IF match.homeScore > match.awayScore THEN "win"
        ELSE IF match.homeScore = match.awayScore THEN "draw" ELSE "loss")
  ELSE IF teamId = match.awayTeam
  THEN (IF match.awayScore > match.homeScore THEN "win"
        ELSE IF match.awayScore = match.homeScore THEN "draw" ELSE "loss")
  ELSE ""

\* playerPoints (lines 897-923): one entry per perf player that has a document
PlayerPoints(match) ==
  [p \in PerfPlayers(match) \cap Players |->
     LET perf == Perf(match, p)
         conceded == IF PlayerTeam[p] = match.homeTeam THEN match.awayScore
                     ELSE IF PlayerTeam[p] = match.awayTeam THEN match.homeScore
                     ELSE 0
     IN calculatePlayerMatchPoints(perf, PointsCategory(PlayerPosition[p]), conceded,
                                   perf.started, perf.subOn,
                                   OutcomeOf(match, PlayerTeam[p]))]

\* gameweekNumber (lines 846-858): the fixture's gameweek, else Match.gameweek
ResolveGameweek(m, match) ==
  IF FixtureGameweek[m] # NoGameweek THEN FixtureGameweek[m] ELSE match.gameweek

\* A bulk write without the "fantasyStats.match": {$ne: match} filter
NeverHasStat(st, p, m) == FALSE

\* The bulk write on players (lines 926-941): a record is pushed and the
\* season total incremented only for a player without a record for the match
HasStat(st, p, m) == \E i \in DOMAIN st[p].fantasyStats : st[p].fantasyStats[i].match = m

BulkWritePlayers(st, m, gw, playerPoints) ==
  [p \in DOMAIN st |->
     IF p \in DOMAIN playerPoints /\ ~HasStat(st, p, m)
     THEN [st[p] EXCEPT
             !.fantasyStats = Append(@, [match |-> m, gameweek |-> gw,
                                         points |-> playerPoints[p]]),
             !.totalFantasyPoints = @ + playerPoints[p]]
     ELSE st[p]]

\* FantasyTeam.find({"players.player": {$in: playerIds}}) (line 944)
TeamsWithPlayers(ts, playerIds) ==
  {id \in DOMAIN ts : DOMAIN ts[id].players \cap playerIds # {}}

\* `continue` at line 949: the team is not active for the gameweek yet
SkippedForGameweek(ft, gw) ==
  ft.effectiveGameweek # NoGameweek /\ gw # NoGameweek /\ ft.effectiveGameweek > gw

\* contributors (lines 961-982): the scored players on the roster that played
Contributors(ft, match, playerPoints) ==
  {p \in DOMAIN playerPoints \cap DOMAIN ft.players :
      ft.players[p].isStarting \/ Perf(match, p).subOn}

\* A count that doubles the vice-captain's points as well
CountedPointsViceDoubled(ft, p, playerPoints) ==
  IF p \in {ft.captain, ft.viceCaptain} \ {NoPlayer} THEN playerPoints[p] * 2 ELSE playerPoints[p]

\* The counted points of one contributor: the captain's are doubled (line 971)
CountedPoints(ft, p, playerPoints) ==
  IF ft.captain # NoPlayer /\ ft.captain = p THEN playerPoints[p] * 2 ELSE playerPoints[p]

\* Totals that are added to the stored ones instead of replacing them
GameweekTotalsAdded(matchPoints, old) ==
  LET keys == {matchPoints[k].gameweek : k \in DOMAIN matchPoints} \ {NoGameweek}
  IN [g \in DOMAIN old \cup keys |->
        (IF g \in DOMAIN old THEN old[g] ELSE 0)
        + (IF g \in keys
           THEN SumOver({k \in DOMAIN matchPoints : matchPoints[k].gameweek = g},
                        [k \in DOMAIN matchPoints |-> matchPoints[k].points])
           ELSE 0)]

\* newGwTotals / gameweekPoints.set (lines 996-1022): totals of the stored
\* matchPoints by gameweek, entries without a gameweek left out
GameweekTotals(matchPoints, old) ==
  LET keys == {matchPoints[k].gameweek : k \in DOMAIN matchPoints} \ {NoGameweek}
  IN [g \in DOMAIN old \cup keys |->
        IF g \in keys
        THEN SumOver({k \in DOMAIN matchPoints : matchPoints[k].gameweek = g},
                     [k \in DOMAIN matchPoints |-> matchPoints[k].points])
        ELSE old[g]]

\* A season total that counts the first stored gameweek only
SeasonTotalFirstWeek(gameweekPoints) ==
  IF DOMAIN gameweekPoints = {} THEN 0 ELSE gameweekPoints[Min(DOMAIN gameweekPoints)]

\* recomputedTotal (lines 1025-1031): the sum of the stored gameweek totals
SeasonTotal(gameweekPoints) == SumOver(DOMAIN gameweekPoints, gameweekPoints)

\* One round of the fan-out loop for team ft (lines 951-1069)
TeamAfterMatch(ft, m, gw, match, playerPoints) ==
  LET contributors == Contributors(ft, match, playerPoints)
      counted == [p \in contributors |-> CountedPoints(ft, p, playerPoints)]
      teamTotalForMatch == SumOver(contributors, counted)
      matchPoints == MapSet(ft.matchPoints, m,
                            [ points |-> teamTotalForMatch, gameweek |-> gw,
                              contributors |-> [p \in contributors |->
                                                  [ points |-> playerPoints[p],
                                                    countedPoints |-> counted[p] ]] ])
      gameweekPoints == GameweekTotals(matchPoints, ft.gameweekPoints)
      currentStarting == StartingIds(ft.players)
      snapshots == IF gw # NoGameweek /\ gw \notin DOMAIN ft.lineupSnapshots
                      /\ Cardinality(currentStarting) = 11
                   THEN MapSet(ft.lineupSnapshots, gw,
                               Snapshot(currentStarting, ft.captain, ft.viceCaptain, FALSE))
                   ELSE ft.lineupSnapshots
  IN [ft EXCEPT !.matchPoints = matchPoints,
                !.gameweekPoints = gameweekPoints,
                !.points = SeasonTotal(gameweekPoints),
                !.lineupSnapshots = snapshots]

-----------------------------------------------------------------------------
(* The deadline cron (controllers/gameweek.js lines 6-33) *)

\* Deadlines are set one hour before the earliest kick-off; the clock ticks in hours
OneHour == 1

\* Fixture.match: null (a knockout placeholder that is not filled yet)
NoMatch == 0

\* A Fixture document: the gameweek that lists it and its match
Fixture(week, match) == [week |-> week, match |-> match]

\* The Fixture collection as generateFixturesAuto leaves it: fixture 1 is
\* that of match 1 in gameweek 1, fixture 2 that of match 2 in gameweek 2,
\* fixtures 3 and 4 are the placeholders of the knockout gameweek 3
\* (fixture.js lines 205-229)
LeagueFixtures ==
  << Fixture(1, 1), Fixture(2, 2), Fixture(3, NoMatch), Fixture(3, NoMatch) >>

\* gameweek.fixtures in the Fixture collection fx
GameweekFixtures(fx, g) == {f \in DOMAIN fx : fx[f].week = g}

\* Match.find({_id: {$in: fixtureIds.map(f => f.match)}}) (gameweek.js line
\* 11): a fixture without a match finds none
FoundMatches(fx, g) == {fx[f].match : f \in GameweekFixtures(fx, g)} \ {NoMatch}

\* The body of the loop for the gameweeks g, g+1, ... whose deadline is null,
\* fx the Fixture collection.  A gameweek without a match makes `reduce`
\* throw on the empty list, which ends the whole run (the catch is outside
\* the loop).
RECURSIVE SweepOver(_, _, _, _)
SweepOver(fx, g, dl, ms) ==
  IF g \notin Gameweeks THEN dl
  ELSE IF dl[g] # NoDeadline THEN SweepOver(fx, g + 1, dl, ms)
  ELSE IF \E m \in FoundMatches(fx, g) : ms[m].date = NoDate
    THEN SweepOver(fx, g + 1, dl, ms)
  ELSE IF FoundMatches(fx, g) = {} THEN dl
  ELSE SweepOver(fx, g + 1,
                 [dl EXCEPT ![g] = Min({ms[m].date : m \in FoundMatches(fx, g)}) - OneHour],
                 ms)

\* The cron's run while the knockout placeholders are unfilled
SweepFrom(g, dl, ms) == SweepOver(LeagueFixtures, g, dl, ms)

-----------------------------------------------------------------------------
(* The requests the model issues *)

\* The latest clock reading
MaxTime == 3

\* Requests answered per behaviour, and how many of them may be refused
MaxOps == 4
MaxRefused == 1

Limits == [ops |-> MaxOps, refused |-> MaxRefused]

\* Events kept per match
MaxGoals == 2
MaxCards == 1
MaxSubs == 1

\* Hours that pass between two clock readings of one handler
Delays == {0, 1}

\* A valid squad that differs from 1..15 in one forward
AltSquad == [i \in 1..SQUAD_SIZE |-> IF i = 15 THEN 19 ELSE i]

\* A squad with three defenders only
ThinSquad == [i \in 1..SQUAD_SIZE |-> IF i = 4 THEN 18 ELSE IF i = 5 THEN 19 ELSE i]

CreateRequests ==
  { [user |-> "u1", players |-> BaseSquad, budget |-> 150],
    [user |-> "u2", players |-> AltSquad, budget |-> 150],
    [user |-> "u1", players |-> ThinSquad, budget |-> 150] }

EditRequests ==
  { [user |-> "u1", own |-> TRUE, hasPlayers |-> TRUE, players |-> AltSquad],
    [user |-> "u1", own |-> TRUE, hasPlayers |-> TRUE, players |-> ThinSquad] }

\* 1 GK, 4 DEF, 4 MID, 2 FWD; players 2, 7, 12 and 15 (or 19) on the bench
Lineup442 == << 1, 3, 4, 5, 6, 8, 9, 10, 11, 13, 14 >>
\* the same with forward 13 named twice and forward 14 left out
LineupRepeat == << 1, 3, 4, 5, 6, 8, 9, 10, 11, 13, 13 >>
\* both goalkeepers
LineupTwoGK == << 1, 2, 3, 4, 5, 8, 9, 10, 11, 13, 14 >>

LineupRequest(user, ids, captain, vice, target) ==
  [user |-> user, own |-> TRUE, startingPlayerIds |-> ids, captain |-> captain,
   viceCaptain |-> vice, target |-> target]

LineupRequests ==
  { LineupRequest("u1", Lineup442, 3, 8, TargetAbsent),
    LineupRequest("u1", Lineup442, 13, NoPlayer, 1),
    LineupRequest("u1", LineupRepeat, 13, NoPlayer, TargetDefault),
    LineupRequest("u1", LineupTwoGK, 3, NoPlayer, TargetAbsent),
    LineupRequest("u1", Lineup442, 2, NoPlayer, TargetAbsent) }

Pair(o, i) == [out |-> o, in |-> i]

TransferRequest(user, own, transfers) == [user |-> user, own |-> own, transfers |-> transfers]

TransferRequests ==
  { TransferRequest("u1", TRUE, << Pair(7, 17) >>),
    TransferRequest("u1", TRUE, << Pair(13, 19) >>),
    TransferRequest("u1", TRUE, << Pair(7, 17), Pair(12, 18), Pair(15, 19) >>),
    TransferRequest("u1", TRUE, << Pair(7, 17), Pair(12, 18), Pair(15, 19), Pair(2, 16) >>),
    TransferRequest("u1", TRUE, << Pair(2, 16) >>),
    TransferRequest("u1", TRUE, << Pair(3, 17) >>),
    TransferRequest("u1", TRUE, << Pair(7, 19) >>),
    TransferRequest("u1", TRUE, << Pair(17, 7) >>),
    TransferRequest("u1", TRUE, << Pair(4, 3) >>),
    TransferRequest("u1", TRUE, << Pair(4, UnknownPlayer) >>),
    TransferRequest("u1", TRUE, << Pair(7, 17), Pair(7, 18) >>),
    TransferRequest("u2", FALSE, << Pair(12, 18) >>) }

SubstituteRequests ==
  { [user |-> "u1", own |-> TRUE, out |-> 6, in |-> 7],
    [user |-> "u1", own |-> TRUE, out |-> 3, in |-> 7],
    [user |-> "u1", own |-> TRUE, out |-> 13, in |-> 12],
    [user |-> "u1", own |-> TRUE, out |-> 1, in |-> 7] }

CaptainRequests ==
  { [user |-> "u1", own |-> TRUE, captain |-> 4, viceCaptain |-> NoPlayer],
    [user |-> "u1", own |-> TRUE, captain |-> NoPlayer, viceCaptain |-> 9],
    [user |-> "u1", own |-> TRUE, captain |-> 4, viceCaptain |-> 2],
    [user |-> "u1", own |-> TRUE, captain |-> 7, viceCaptain |-> NoPlayer] }

\* The teams a request addresses: the sender's own, or (own = FALSE) the others
TargetsOf(ts, r) == {id \in DOMAIN ts : (ts[id].user = r.user) = r.own}

-----------------------------------------------------------------------------
(* Match updates the model issues *)

Goal(team, scorer, assist, ownGoal) ==
  [team |-> team, scorer |-> scorer, assist |-> assist, ownGoal |-> ownGoal]

NoUpdate(user, m) ==
  [ admin |-> user, match |-> m, goals |-> << >>, cards |-> << >>,
    substitutions |-> << >>, manOftheMatch |-> NoPlayer,
    hasLineups |-> FALSE, home |-> {}, away |-> {},
    hasFulltime |-> FALSE, fulltime |-> FALSE, hasDate |-> FALSE, date |-> NoDate,
    hasResult |-> FALSE, result |-> "",
    hasHomeTeam |-> FALSE, homeTeam |-> NoTeam, hasAwayTeam |-> FALSE, awayTeam |-> NoTeam ]

MatchUpdates ==
  { \* match 2: lineups, a goal by forward 13 assisted by midfielder 10, full time
    [NoUpdate(TRUE, 2) EXCEPT !.hasLineups = TRUE, !.home = {5, 10, 13}, !.away = {8, 11, 14},
                              !.goals = << Goal("home", 13, 10, FALSE) >>,
                              !.hasFulltime = TRUE, !.fulltime = TRUE],
    \* match 2: an own goal by away midfielder 8, booked for his own side, with an assist
    [NoUpdate(TRUE, 2) EXCEPT !.goals = << Goal("away", 8, 11, TRUE) >>],
    \* match 2: an own goal by away midfielder 8 booked for the home side
    [NoUpdate(TRUE, 2) EXCEPT !.goals = << Goal("home", 8, NoPlayer, TRUE) >>],
    \* match 2: an own goal by away midfielder 8, no side named
    [NoUpdate(TRUE, 2) EXCEPT !.goals = << Goal("", 8, NoPlayer, TRUE) >>,
                              !.hasFulltime = TRUE, !.fulltime = TRUE],
    [NoUpdate(TRUE, 2) EXCEPT !.hasFulltime = TRUE, !.fulltime = FALSE],
    [NoUpdate(TRUE, 2) EXCEPT !.hasFulltime = TRUE, !.fulltime = TRUE],
    \* match 2: a card, a substitution, the man of the match, full time
    [NoUpdate(TRUE, 2) EXCEPT !.cards = << [player |-> 8, type |-> "Yellow"] >>,
                              !.substitutions = << [playerIn |-> 14, playerOut |-> 11] >>,
                              !.manOftheMatch = 10,
                              !.hasFulltime = TRUE, !.fulltime = TRUE],
    \* match 1: kick-off time set
    [NoUpdate(TRUE, 1) EXCEPT !.hasDate = TRUE, !.date = 3],
    \* match 1: lineups and full time
    [NoUpdate(TRUE, 1) EXCEPT !.hasLineups = TRUE, !.home = {1, 3}, !.away = {2, 4},
                              !.hasFulltime = TRUE, !.fulltime = TRUE],
    \* match 1: full time, nothing else recorded
    [NoUpdate(TRUE, 1) EXCEPT !.hasFulltime = TRUE, !.fulltime = TRUE],
    \* not an admin
    [NoUpdate(FALSE, 2) EXCEPT !.hasFulltime = TRUE, !.fulltime = TRUE] }

\* A request that carries the fulltime flag and nothing else
OnlyFulltime(u) == u = [NoUpdate(u.admin, u.match) EXCEPT !.hasFulltime = TRUE,
                                                           !.fulltime = u.fulltime]

\* The match document after sections 1-8 of updateMatch (part_011 lines 138-443)
MatchAfterUpdate(match, u) ==
  LET withEvents ==
        [match EXCEPT
           !.goals = @ \o [i \in DOMAIN u.goals |->
                             GoalObj(u.goals[i], match.homeTeam, match.awayTeam)],
           !.cards = @ \o u.cards,
           !.substitutions = @ \o u.substitutions,
           !.manOftheMatch = IF u.manOftheMatch # NoPlayer THEN u.manOftheMatch ELSE @,
           !.lineups = IF u.hasLineups THEN [home |-> u.home, away |-> u.away] ELSE @,
           !.date = IF u.hasDate THEN u.date ELSE @,
           !.result = IF u.hasResult THEN u.result ELSE @,
           !.homeTeam = IF u.hasHomeTeam THEN u.homeTeam ELSE @,
           !.awayTeam = IF u.hasAwayTeam THEN u.awayTeam ELSE @,
           !.fulltime = IF u.hasFulltime THEN u.fulltime ELSE @]
  IN recomputeScoresFromGoals(withEvents)

NewStanding ==
  [matchesPlayed |-> 0, wins |-> 0, draws |-> 0, losses |-> 0, points |-> 0,
   goalsFor |-> 0, goalsAgainst |-> 0]

\* The standings update of a match just marked full time (part_011 lines 457-490)
StandingsAfter(tbl, match) ==
  LET homeGoals == match.homeScore
      awayGoals == match.awayScore
      h == match.homeTeam
      a == match.awayTeam
      side(row, for, against) ==
        [row EXCEPT !.matchesPlayed = @ + 1,
                    !.goalsFor = @ + for,
                    !.goalsAgainst = @ + against,
                    !.wins = IF for > against THEN @ + 1 ELSE @,
                    !.losses = IF for < against THEN @ + 1 ELSE @,
                    !.draws = IF for = against THEN @ + 1 ELSE @,
                    !.points = IF for > against THEN @ + 3
                               ELSE IF for = against THEN @ + 1 ELSE @]
  IN [tbl EXCEPT ![h] = side(@, homeGoals, awayGoals),
                 ![a] = side(@, awayGoals, homeGoals)]

-----------------------------------------------------------------------------
(* The state machine: requests are answered one at a time *)

Idle == [pc |-> "idle"]

NoResponse ==
  [seq |-> 0, refused |-> 0, op |-> "", target |-> 0, status |-> 0, reason |-> "",
   gated |-> NoGameweek]

\* The answer to a request; a 4xx answer is a refusal
Respond(op, target, status, reason) ==
  [seq |-> resp.seq + 1,
   refused |-> IF status >= 400 THEN resp.refused + 1 ELSE resp.refused,
   op |-> op, target |-> target, status |-> status, reason |-> reason,
   gated |-> NoGameweek]

\* The answer of a handler that compared its clock reading with the deadline
\* of gameweek gw (NoGameweek: it made no such comparison)
RespondGated(op, target, status, reason, gw) ==
  [Respond(op, target, status, reason) EXCEPT !.gated = gw]

NoRun == [match |-> 0, clean |-> FALSE, reruns |-> 0]

InitialMatches == [m \in Matches |-> NewMatch(m, IF m = 2 THEN 4 ELSE NoDate)]

NoDeadlines == [g \in Gameweeks |-> NoDeadline]

\* The statistics of a new Player document (Felteam.js, schema defaults)
InitialStats ==
  [p \in Players |-> [goals |-> 0, assists |-> 0, fantasyStats |-> << >>,
                      totalFantasyPoints |-> 0]]

Init ==
  /\ teams = << >>
  /\ now = 1
  /\ matches = InitialMatches
  /\ deadline = SweepFrom(1, NoDeadlines, InitialMatches)
  /\ resp = NoResponse
  /\ price = PriceList1
  /\ stats = InitialStats
  /\ standings = [t \in RealTeams |-> NewStanding]
  /\ run = Idle
  /\ applied = << >>
  /\ lastRun = NoRun
  /\ inflight = << >>
  /\ done = << >>
  /\ vIn = << >>
  /\ vBudget = 0
  /\ vOut = NotCalled

\* A request can be taken: none is being answered, and the budget is not used up
Ready(lim) == run.pc = "idle" /\ resp.seq < lim.ops /\ resp.refused < lim.refused

\* Any request other than a bare fulltime toggle of the match last processed
Touched == [lastRun EXCEPT !.clean = FALSE]

\* A run on match m committed: a re-run when nothing but fulltime toggles of m
\* was requested since the last committed run, which was on m too
Ran(m) ==
  [match |-> m, clean |-> TRUE,
   reruns |-> IF lastRun.clean /\ lastRun.match = m THEN lastRun.reruns + 1 ELSE 0]

\* The clock moves on
Tick ==
  /\ run.pc = "idle"
  /\ now < MaxTime
  /\ now' = now + 1
  /\ UNCHANGED <<teams, deadline, resp, price, league, run, history, concurrent, harness>>

\* One run of the deadline cron
DeadlineSweep ==
  /\ run.pc = "idle"
  /\ deadline' = SweepFrom(1, deadline, matches)
  /\ deadline' # deadline
  /\ UNCHANGED <<teams, now, resp, price, league, run, history, concurrent, harness>>

NextTeamId(ts) == Cardinality(DOMAIN ts) + 1

CreateFantasyTeam(reqs, lim) ==
  \E r \in reqs :
    LET out == createFantasyTeamResult(HasTeam(teams, r.user), r.user, r.players,
                                       r.budget, deadline, now, price)
        id == NextTeamId(teams)
    IN /\ Ready(lim)
       /\ teams' = IF out.status = 201 THEN teams @@ (id :> out.team) ELSE teams
       /\ applied' = IF out.status = 201
                     THEN applied @@ (id :> [g \in Gameweeks |-> 0]) ELSE applied
       /\ resp' = Respond("createFantasyTeam", IF out.status = 201 THEN id ELSE 0,
                          out.status, out.reason)
       /\ lastRun' = Touched
       /\ UNCHANGED <<now, deadline, price, league, run, concurrent, harness>>

EditFantasyTeam(reqs, lim) ==
  \E r \in reqs : \E id \in TargetsOf(teams, r) : \E d \in Delays :
    LET upcoming == getUpcomingGameweek(deadline, now)
        out == editFantasyTeamResult(teams[id], r.user, r.hasPlayers, r.players,
                                     upcoming, deadline, now + d, price)
    IN /\ Ready(lim)
       /\ now + d <= MaxTime
       /\ now' = now + d
       /\ teams' = [teams EXCEPT ![id] = Persist(@, out)]
       /\ resp' = RespondGated("editFantasyTeam", id, out.status, out.reason, upcoming)
       /\ lastRun' = Touched
       /\ UNCHANGED <<deadline, price, league, run, applied, concurrent, harness>>

MakeTransfers(reqs, lim) ==
  \E r \in reqs : \E id \in TargetsOf(teams, r) : \E d \in Delays :
    LET upcoming == getUpcomingGameweek(deadline, now)
        out == makeTransfersResult(teams[id], r.user, r.transfers, upcoming, deadline,
                                   now + d, price)
    IN /\ Ready(lim)
       /\ now + d <= MaxTime
       /\ now' = now + d
       /\ teams' = [teams EXCEPT ![id] = Persist(@, out)]
       /\ applied' = IF out.status = 200
                     THEN [applied EXCEPT ![id][upcoming] = @ + Len(r.transfers)]
                     ELSE applied
       /\ resp' = RespondGated("makeTransfers", id, out.status, out.reason, upcoming)
       /\ lastRun' = Touched
       /\ UNCHANGED <<deadline, price, league, run, concurrent, harness>>

\* The three clock readings of setLineup: two getUpcomingGameweek calls and `now`
LineupDelays == { << 0, 0 >>, << 1, 0 >>, << 0, 1 >> }

SetLineup(reqs, lim) ==
  \E r \in reqs : \E id \in TargetsOf(teams, r) : \E d \in LineupDelays :
    LET up0 == getUpcomingGameweek(deadline, now)
        up1 == getUpcomingGameweek(deadline, now + d[1])
        out == setLineupResult(teams[id], r.user, r.startingPlayerIds, r.captain,
                               r.viceCaptain, r.target, up0, up1,
                               deadline, now + d[1] + d[2])
    IN /\ Ready(lim)
       /\ now + d[1] + d[2] <= MaxTime
       /\ now' = now + d[1] + d[2]
       /\ teams' = [teams EXCEPT ![id] = Persist(@, out)]
       /\ resp' = RespondGated("setLineup", id, out.status, out.reason,
                               IF TargetGameweek(r.target, up0) = up1 THEN up1
                               ELSE NoGameweek)
       /\ lastRun' = Touched
       /\ UNCHANGED <<deadline, price, league, run, applied, concurrent, harness>>

SubstitutePlayers(reqs, lim) ==
  \E r \in reqs : \E id \in TargetsOf(teams, r) :
    LET out == substitutePlayersResult(teams[id], r.user, r.out, r.in)
    IN /\ Ready(lim)
       /\ teams' = [teams EXCEPT ![id] = Persist(@, out)]
       /\ resp' = Respond("substitutePlayers", id, out.status, out.reason)
       /\ lastRun' = Touched
       /\ UNCHANGED <<now, deadline, price, league, run, applied, concurrent, harness>>

SetCaptainVice(reqs, lim) ==
  \E r \in reqs : \E id \in TargetsOf(teams, r) :
    LET out == setCaptainViceResult(teams[id], r.user, r.captain, r.viceCaptain)
    IN /\ Ready(lim)
       /\ teams' = [teams EXCEPT ![id] = Persist(@, out)]
       /\ resp' = Respond("setCaptainVice", id, out.status, out.reason)
       /\ lastRun' = Touched
       /\ UNCHANGED <<now, deadline, price, league, run, applied, concurrent, harness>>

\* An updateMatch that lets goals in whatever the fulltime flag
GoalsNeverRefused(wasFulltime, goals) == FALSE

\* wasFulltime && updateData.goals.length > 0 (part_011 line 91)
GoalsAfterFulltime(wasFulltime, goals) == wasFulltime /\ Len(goals) > 0

\* updateMatch (part_011 lines 44-537) up to the commit of its transaction;
\* when the match was just marked full time, computePointsForMatch is called
\* next, before the handler answers
UpdateMatchWith(u, lim) ==
    LET m == u.match
        match == matches[m]
        wasFulltime == match.fulltime
        after == MatchAfterUpdate(match, u)
        justMarkedFulltime == ~wasFulltime /\ after.fulltime
        refused == IF ~u.admin THEN "NotAuthorized"
                   ELSE IF GoalsAfterFulltime(wasFulltime, u.goals) THEN "GoalsAfterFulltime"
                   ELSE ""
    IN /\ Ready(lim)
       /\ Len(match.goals) + Len(u.goals) <= MaxGoals
       /\ Len(match.cards) + Len(u.cards) <= MaxCards
       /\ Len(match.substitutions) + Len(u.substitutions) <= MaxSubs
       /\ IF refused # ""
          THEN /\ resp' = Respond("updateMatch", m, 403, refused)
               /\ UNCHANGED <<league, run>>
          ELSE /\ matches' = [matches EXCEPT ![m] = after]
               /\ stats' = StatsAfterGoals(stats, u.goals)
               /\ standings' = IF justMarkedFulltime THEN StandingsAfter(standings, after)
                               ELSE standings
               /\ run' = IF justMarkedFulltime THEN [pc |-> "players", match |-> m] ELSE Idle
               /\ resp' = Respond("updateMatch", m, 200, "")
       /\ lastRun' = IF OnlyFulltime(u) /\ lastRun.match = m THEN lastRun ELSE Touched
       /\ UNCHANGED <<teams, now, deadline, price, applied, concurrent, harness>>

UpdateMatch(reqs, lim) == \E u \in reqs : UpdateMatchWith(u, lim)

\* A bulk write issued without the session: it is visible at once
BulkWriteOutsideSession == FALSE

\* Player.bulkWrite(playerBulkOps, { session }) (fantasy.js line 940): the
\* write belongs to the pipeline's transaction
BulkWriteInSession == TRUE

\* The outcome of a pipeline run; the request counter is the caller's
RunOutcome(m, status, reason) ==
  [resp EXCEPT !.op = "computePointsForMatch", !.target = m, !.status = status,
               !.reason = reason]

\* The pipeline up to the bulk write on players (fantasy.js lines 770-941).
\* With no player in the performance map it stamps the gameweek, commits and
\* returns (lines 869-876).
PipelinePlayers ==
  /\ run.pc = "players"
  /\ LET m == run.match
         match == matches[m]
         gw == ResolveGameweek(m, match)
         playerIds == PerfPlayers(match)
         playerPoints == PlayerPoints(match)
         written == BulkWritePlayers(stats, m, gw, playerPoints)
     IN IF playerIds = {}
        THEN /\ matches' = [matches EXCEPT ![m].gameweek = IF gw # NoGameweek THEN gw ELSE @]
             /\ run' = Idle
             /\ resp' = RunOutcome(m, 200, "NoPlayers")
             /\ lastRun' = Ran(m)
             /\ UNCHANGED <<stats, standings>>
        ELSE /\ run' = [ pc |-> "teams", match |-> m, gw |-> gw,
                         playerPoints |-> playerPoints,
                         todo |-> TeamsWithPlayers(teams, playerIds),
                         txn |-> [stats |-> written, teams |-> << >>] ]
             /\ stats' = IF BulkWriteInSession THEN stats ELSE written
             /\ UNCHANGED <<matches, standings, resp, lastRun>>
  /\ UNCHANGED <<teams, now, deadline, price, applied, concurrent, harness>>

\* One round of the fan-out loop (lines 947-1071): the next fantasy team
\* found, skipped when not active for the gameweek, else saved in the session
PipelineTeam ==
  /\ run.pc = "teams"
  /\ run.todo # {}
  /\ LET id == Min(run.todo)
         ft == teams[id]
     IN run' = [run EXCEPT
                  !.todo = @ \ {id},
                  !.txn.teams = IF SkippedForGameweek(ft, run.gw) THEN @
                                ELSE MapSet(@, id, TeamAfterMatch(ft, run.match, run.gw,
                                                                  matches[run.match],
                                                                  run.playerPoints))]
  /\ UNCHANGED <<teams, now, deadline, resp, price, league, history, concurrent, harness>>

\* Match.updateOne({$set: matchUpdate}).session(session) (lines 1074-1077)
PipelineFlag ==
  /\ run.pc = "teams"
  /\ run.todo = {}
  /\ run' = [run EXCEPT !.pc = "commit"]
  /\ UNCHANGED <<teams, now, deadline, resp, price, league, history, concurrent, harness>>

\* The match document after the $set of matchUpdate
MatchAfterRun(match, gw, saved) ==
  [match EXCEPT !.fantasyProcessed = TRUE,
                !.gameweek = IF gw # NoGameweek THEN gw ELSE @,
                !.fantasyTeamPoints =
                   IF DOMAIN saved # {}
                   THEN [id \in DOMAIN saved |-> saved[id].matchPoints[run.match].points]
                   ELSE @]

\* session.commitTransaction() (line 1079): the writes of the run become visible
PipelineCommit ==
  /\ run.pc = "commit"
  /\ stats' = run.txn.stats
  /\ teams' = [id \in DOMAIN teams |->
                 IF id \in DOMAIN run.txn.teams THEN run.txn.teams[id] ELSE teams[id]]
  /\ matches' = [matches EXCEPT ![run.match] = MatchAfterRun(@, run.gw, run.txn.teams)]
  /\ run' = Idle
  /\ resp' = RunOutcome(run.match, 200, "")
  /\ lastRun' = Ran(run.match)
  /\ UNCHANGED <<now, deadline, price, standings, applied, concurrent, harness>>

\* A step of the run throws (lines 1083-1092): the transaction is aborted and
\* the error is swallowed by updateMatch (part_011 lines 499-503)
PipelineFail ==
  /\ run.pc # "idle"
  /\ run' = Idle
  /\ resp' = RunOutcome(run.match, 500, run.pc)
  /\ lastRun' = Touched
  /\ UNCHANGED <<teams, now, deadline, price, league, applied, concurrent, harness>>

Next ==
  \/ Tick
  \/ DeadlineSweep
  \/ CreateFantasyTeam(CreateRequests, Limits)
  \/ EditFantasyTeam(EditRequests, Limits)
  \/ MakeTransfers(TransferRequests, Limits)
  \/ SetLineup(LineupRequests, Limits)
  \/ SubstitutePlayers(SubstituteRequests, Limits)
  \/ SetCaptainVice(CaptainRequests, Limits)
  \/ UpdateMatch(MatchUpdates, Limits)
  \/ PipelinePlayers
  \/ PipelineTeam
  \/ PipelineFlag
  \/ PipelineCommit
  \/ PipelineFail

Spec == Init /\ [][Next]_vars

-----------------------------------------------------------------------------
(* Properties of the request handlers and the pipeline (Spec) *)

\* C1 (transfer atomicity): whenever a makeTransfers request is answered with
\* a rejection, the stored teams are exactly what they were before the
\* request: same roster entries, same captain and vice-captain, same
\* transfer quota; no pair of the batch is applied.
C1_TransferAtomicity ==
  [][ (resp'.seq = resp.seq + 1 /\ resp'.op = "makeTransfers" /\ resp'.status # 200)
        => teams' = teams ]_vars

\* A batch was rejected on its content after the handler had reset the quota
\* of the document it holds (the upcoming gameweek is not the one the stored
\* quota was last reset for)
C1_Witness ==
  /\ resp.op = "makeTransfers"
  /\ resp.reason \in {"Quota", "OutNotInSquad", "InAlreadyInSquad", "IncomingNotFound",
                      "RosterSizeMismatch", "TeamCap", "FWD", "Budget", "StartingCount"}
  /\ resp.gated # NoGameweek
  /\ teams[resp.target].transfers.lastResetGw # resp.gated

\* The totals a pipeline run distributes
PlayerTotals == [p \in Players |-> stats[p].totalFantasyPoints]
TeamTotals ==
  [id \in DOMAIN teams |->
     [ perMatch |-> [k \in DOMAIN teams[id].matchPoints |-> teams[id].matchPoints[k].points],
       perGameweek |-> teams[id].gameweekPoints,
       season |-> teams[id].points ]]

\* C3 (idempotent points distribution): when computePointsForMatch commits a
\* run on a match whose previous run committed and nothing but fulltime
\* toggles of that match was requested in between, the players' season
\* totals, the teams' per-match totals, gameweek totals and season totals are
\* what the first run left.
C3_IdempotentDistribution ==
  [][ \A m \in Matches :
        ( /\ run.pc # "idle" /\ run.match = m
          /\ run'.pc = "idle" /\ resp'.status = 200
          /\ lastRun.clean /\ lastRun.match = m )
        => (PlayerTotals' = PlayerTotals /\ TeamTotals' = TeamTotals) ]_vars

\* A second run has committed on a match that gave a player and a team points
C3_Witness ==
  /\ lastRun.clean
  /\ lastRun.reruns >= 1
  /\ \E p \in Players : HasStat(stats, p, lastRun.match) /\ stats[p].totalFantasyPoints > 0
  /\ \E id \in DOMAIN teams :
       /\ lastRun.match \in DOMAIN teams[id].matchPoints
       /\ teams[id].matchPoints[lastRun.match].points > 0

\* C4 (score conservation): in every reachable state every fantasy team's
\* season total equals the sum of its stored gameweek totals.
C4_ScoreConservation ==
  \A id \in DOMAIN teams :
    teams[id].points = SumOver(DOMAIN teams[id].gameweekPoints, teams[id].gameweekPoints)

\* A team with points stored for two gameweeks
C4_Witness ==
  \E id \in DOMAIN teams :
    /\ Cardinality(DOMAIN teams[id].gameweekPoints) >= 2
    /\ \A g \in DOMAIN teams[id].gameweekPoints : teams[id].gameweekPoints[g] > 0

\* The fantasy-stat records of a player for one match, and for all matches
RecordsFor(p, m) == {i \in DOMAIN stats[p].fantasyStats : stats[p].fantasyStats[i].match = m}
RecordPoints(p) == [i \in DOMAIN stats[p].fantasyStats |-> stats[p].fantasyStats[i].points]

\* C14 (player season-total guard): in every reachable state, after any
\* number of pipeline runs, every player holds at most one fantasy-stat record
\* per match and the player's totalFantasyPoints is the sum of the points of
\* the player's records.
C14_SeasonTotalGuard ==
  \A p \in Players :
    /\ \A m \in Matches : Cardinality(RecordsFor(p, m)) <= 1
    /\ stats[p].totalFantasyPoints = SumOver(DOMAIN stats[p].fantasyStats, RecordPoints(p))

\* The pipeline has committed again on a match a player holds a record with
\* points for
C14_Witness ==
  /\ lastRun.reruns >= 1
  /\ run.pc = "idle"
  /\ \E p \in Players :
       /\ Cardinality(RecordsFor(p, lastRun.match)) = 1
       /\ \E i \in RecordsFor(p, lastRun.match) : stats[p].fantasyStats[i].points > 0

\* C35 (scoring consistent under re-editing): after any sequence of match
\* edits and pipeline runs, for every fantasy team and match the raw points
\* of each contributor in the team's per-match breakdown equal the points of
\* that player's own fantasy-stat record for the match.
C35_BreakdownMatchesRecords ==
  run.pc = "idle" =>
    \A id \in DOMAIN teams : \A m \in DOMAIN teams[id].matchPoints :
      \A q \in DOMAIN teams[id].matchPoints[m].contributors :
        \A i \in RecordsFor(q, m) :
          stats[q].fantasyStats[i].points = teams[id].matchPoints[m].contributors[q].points

\* What a scored player on the roster of ft is worth to the team in a match
WorthToTeam(ft, match, q) ==
  LET pts == PlayerPoints(match)[q]
  IN IF ~(ft.players[q].isStarting \/ Perf(match, q).subOn) THEN 0
     ELSE IF q = ft.captain THEN 2 * pts
     ELSE pts

\* C23 (team points for a match): when a run of computePointsForMatch
\* commits, the per-match total stored for every fantasy team it processed is
\* the sum, over the scored players on the team's roster, of the player's
\* points if the roster entry is flagged starting or the player was subbed
\* on in this match (the captain's points doubled, the vice-captain's as
\* they are) and of zero otherwise.
C23_TeamPointsForMatch ==
  [][ (run.pc = "commit" /\ run'.pc = "idle" /\ resp'.status = 200)
        => \A id \in DOMAIN run.txn.teams :
             LET ft == teams[id]
                 match == matches[run.match]
                 scored == DOMAIN PlayerPoints(match) \cap DOMAIN ft.players
             IN teams'[id].matchPoints[run.match].points
                  = SumOver(scored, [q \in scored |-> WorthToTeam(ft, match, q)]) ]_vars

\* A run has committed for a team whose captain (3) played and counts double
\* while goalkeeper 2, on the team's bench, has points for the match that count
\* for nothing
C23_Witness ==
  /\ resp.op = "computePointsForMatch"
  /\ resp.status = 200
  /\ \E id \in DOMAIN teams :
       LET ft == teams[id]
           match == matches[resp.target]
           pts == PlayerPoints(match)
       IN /\ resp.target \in DOMAIN ft.matchPoints
          /\ ft.captain = 3 /\ ft.players[3].isStarting
          /\ {2, 3} \subseteq DOMAIN pts \cap DOMAIN ft.players
          /\ pts[3] > 0 /\ pts[2] > 0
          /\ ~ft.players[2].isStarting
          /\ ft.matchPoints[resp.target].points
               = SumOver(DOMAIN pts \cap StartingIds(ft.players), pts) + pts[3]

\* The stored per-match totals of a team that belong to gameweek g
MatchesOf(ft, g) == {k \in DOMAIN ft.matchPoints : ft.matchPoints[k].gameweek = g}

\* C24 (gameweek totals): in every reachable state, for every fantasy team
\* and every gameweek number g, the stored gameweek total for g is the sum of
\* the team's stored per-match totals whose gameweek is g, and is absent or
\* zero when the team has none for g.
C24_GameweekTotals ==
  \A id \in DOMAIN teams : \A g \in Gameweeks :
    LET ft == teams[id]
        total == SumOver(MatchesOf(ft, g), [k \in DOMAIN ft.matchPoints |-> ft.matchPoints[k].points])
    IN IF MatchesOf(ft, g) # {}
       THEN g \in DOMAIN ft.gameweekPoints /\ ft.gameweekPoints[g] = total
       ELSE g \in DOMAIN ft.gameweekPoints => ft.gameweekPoints[g] = 0

\* The per-match total of a team has been stored again by a later run on the
\* same match, and the run left the gameweek total at that one match's points
C24_Witness ==
  /\ resp.op = "computePointsForMatch"
  /\ resp.status = 200
  /\ lastRun.reruns >= 1
  /\ \E id \in DOMAIN teams :
       /\ lastRun.match \in DOMAIN teams[id].matchPoints
       /\ teams[id].matchPoints[lastRun.match].points > 0
       /\ teams[id].gameweekPoints[teams[id].matchPoints[lastRun.match].gameweek]
            = teams[id].matchPoints[lastRun.match].points

\* C25 (processed flag): whenever a run of computePointsForMatch completes
\* successfully, the match has fantasyProcessed = true and carries its
\* resolved gameweek, whatever its event log (a match with no lineups, goals,
\* cards, substitutions or man of the match included).
C25_ProcessedFlag ==
  [][ (run.pc # "idle" /\ run'.pc = "idle" /\ resp'.status = 200)
        => /\ matches'[run.match].fantasyProcessed
           /\ matches'[run.match].gameweek = ResolveGameweek(run.match, matches[run.match]) ]_vars

WithoutGoal(match, i) ==
  [match EXCEPT !.goals = [j \in 1..(Len(match.goals) - 1) |->
                             IF j < i THEN match.goals[j] ELSE match.goals[j + 1]]]

\* C7 (own-goal attribution): every stored own goal is booked for the side
\* opposing the team of the player who put it in, and the performance map
\* counts no goal and no assist for anyone because of it.
C7_OwnGoalAttribution ==
  \A m \in Matches : \A i \in DOMAIN matches[m].goals :
    LET match == matches[m]
        g == match.goals[i]
    IN g.ownGoal =>
         /\ (g.ownBy \in Players /\ PlayerTeam[g.ownBy] = match.homeTeam)
               => g.team = match.awayTeam
         /\ (g.ownBy \in Players /\ PlayerTeam[g.ownBy] = match.awayTeam)
               => g.team = match.homeTeam
         /\ \A p \in Players :
              /\ Perf(match, p).goals = Perf(WithoutGoal(match, i), p).goals
              /\ Perf(match, p).assists = Perf(WithoutGoal(match, i), p).assists

\* What a pipeline run writes, as other requests see it
Visible == <<teams, stats, matches>>

\* The writes of a committed run on match m are all there: a fantasy-stat
\* record for every scored player, a per-match total on every active team
\* holding one of the match's players, and the processed flag
RunWritesVisible(m) ==
  LET match == matches[m]
      playerIds == PerfPlayers(match)
  IN /\ \A p \in DOMAIN PlayerPoints(match) : HasStat(stats, p, m)
     /\ \A id \in TeamsWithPlayers(teams, playerIds) :
          ~SkippedForGameweek(teams[id], ResolveGameweek(m, match))
             => m \in DOMAIN teams[id].matchPoints
     /\ playerIds # {} => match.fantasyProcessed

\* C10 (pipeline all-or-nothing): no step of a run changes what other requests
\* see of teams, players and matches, except the step that commits the run,
\* after which all the writes of the run are there; this includes the steps
\* that abort a run.  The processed flag is raised only by a step after which
\* the player and team writes of the run are there.
C10_AllOrNothing ==
  [][ \A m \in Matches :
        /\ (run.pc # "idle" /\ run.match = m)
             => \/ Visible' = Visible
                \/ (run'.pc = "idle" /\ resp'.status = 200 /\ RunWritesVisible(m)')
        /\ (~matches[m].fantasyProcessed /\ matches'[m].fantasyProcessed)
             => RunWritesVisible(m)' ]_vars

\* A run was aborted at its last step, with player and team writes pending
C10_Witness ==
  /\ resp.op = "computePointsForMatch"
  /\ resp.status = 500
  /\ resp.reason = "commit"
  /\ DOMAIN PlayerPoints(matches[resp.target]) # {}
  /\ \E id \in TeamsWithPlayers(teams, PerfPlayers(matches[resp.target])) :
       ~SkippedForGameweek(teams[id], ResolveGameweek(resp.target, matches[resp.target]))
  /\ ~matches[resp.target].fantasyProcessed

-----------------------------------------------------------------------------
(* Transfers across gameweeks: the requests of one manager and the kick-off
   time of the undated match, behaviours of up to MaxQuotaOps requests *)

MaxQuotaOps == 6

QuotaLimits == [ops |-> MaxQuotaOps, refused |-> MaxRefused]

QuotaCreates == { [user |-> "u1", players |-> BaseSquad, budget |-> 150] }

QuotaLineups == { LineupRequest("u1", Lineup442, 3, 8, TargetAbsent) }

QuotaTransfers ==
  { TransferRequest("u1", TRUE, << Pair(1, 16), Pair(7, 17), Pair(12, 18) >>),
    TransferRequest("u1", TRUE, << Pair(17, 7) >>),
    TransferRequest("u1", TRUE, << Pair(18, 12) >>) }

QuotaUpdates == { [NoUpdate(TRUE, 1) EXCEPT !.hasDate = TRUE, !.date = 3] }

NextQuota ==
  \/ Tick
  \/ DeadlineSweep
  \/ CreateFantasyTeam(QuotaCreates, QuotaLimits)
  \/ SetLineup(QuotaLineups, QuotaLimits)
  \/ MakeTransfers(QuotaTransfers, QuotaLimits)
  \/ UpdateMatch(QuotaUpdates, QuotaLimits)

QuotaSpec == Init /\ [][NextQuota]_vars

\* C2 (transfer quota): for every team and every gameweek, the transfers
\* applied while that gameweek was the upcoming one number at most
\* MAX_FREE_TRANSFERS_PER_GW, and the stored counter freeTransfersUsedInGw
\* is within 0..MAX_FREE_TRANSFERS_PER_GW.
C2_TransferQuota ==
  \A id \in DOMAIN teams :
    /\ teams[id].transfers.freeTransfersUsedInGw \in 0..MAX_FREE_TRANSFERS_PER_GW
    /\ \A g \in Gameweeks : applied[id][g] <= MAX_FREE_TRANSFERS_PER_GW

\* makeTransfers answers batch r for team id after it passed the owner check
\* and the deadline guard
QuotaChecked(r, id) ==
  /\ MakeTransfers({r}, QuotaLimits)
  /\ resp'.target = id
  /\ resp'.reason \notin {"NotAuthorized", "NoActiveGameweek", "DeadlinePassed"}

\* C17 (quota reset per gameweek): when makeTransfers reaches its quota check
\* for a team whose lastResetGw is an earlier gameweek than the upcoming one,
\* a batch of up to MAX_FREE_TRANSFERS_PER_GW pairs is not refused for quota
\* and, when accepted, leaves the counter at the size of the batch and
\* lastResetGw at the upcoming gameweek; when lastResetGw equals the upcoming
\* gameweek the counter is not reset: a batch that exceeds what is left of the
\* quota is refused, an accepted one adds its size to the counter.
C17_QuotaResetPerGameweek ==
  [][ \A r \in QuotaTransfers : \A id \in DOMAIN teams :
        QuotaChecked(r, id) =>
          LET n == Len(r.transfers)
              upcoming == resp'.gated
              before == teams[id].transfers
              after == teams'[id].transfers
          IN /\ before.lastResetGw < upcoming =>
                  /\ n <= MAX_FREE_TRANSFERS_PER_GW => resp'.reason # "Quota"
                  /\ resp'.status = 200 =>
                       after = [lastResetGw |-> upcoming, freeTransfersUsedInGw |-> n]
             /\ before.lastResetGw = upcoming =>
                  /\ before.freeTransfersUsedInGw + n > MAX_FREE_TRANSFERS_PER_GW
                       => resp'.reason = "Quota" /\ after = before
                  /\ resp'.status = 200 =>
                       after = [lastResetGw |-> upcoming,
                                freeTransfersUsedInGw |-> before.freeTransfersUsedInGw + n] ]_vars

\* A team that used all its transfers while gameweek 1 was upcoming has made
\* a transfer with gameweek 2 upcoming
C17_Witness ==
  /\ resp.op = "makeTransfers"
  /\ resp.status = 200
  /\ resp.gated = 2
  /\ applied[resp.target][1] = MAX_FREE_TRANSFERS_PER_GW
  /\ applied[resp.target][2] >= 1
  /\ teams[resp.target].transfers.lastResetGw = 2
  /\ teams[resp.target].transfers.freeTransfersUsedInGw = applied[resp.target][2]

-----------------------------------------------------------------------------
(* Requests that overlap: each handler reads its document (Load), then
   validates what it read and saves (Finish); other requests may be served
   in between.  A team is set up first, one request at a time. *)

\* Requests served one at a time before the overlapping ones
MaxSetupOps == 2
\* Overlapping requests per behaviour
MaxConcurrent == 2

ConcLimits == [ops |-> MaxSetupOps, refused |-> MaxRefused]

ConcCreates == { [user |-> "u1", players |-> BaseSquad, budget |-> 150] }

ConcLineups == { LineupRequest("u1", Lineup442, 3, 8, TargetAbsent) }

\* As Lineup442 with defender 7 in for defender 4
Lineup442Alt == << 1, 3, 5, 6, 7, 8, 9, 10, 11, 13, 14 >>

Tagged(kind, reqs) == {[kind |-> kind, r |-> r] : r \in reqs}

ConcCreateRequests ==
  Tagged("createFantasyTeam", { [user |-> "u1", players |-> BaseSquad, budget |-> 150],
                                [user |-> "u1", players |-> AltSquad, budget |-> 150] })

ConcTeamRequests ==
  Tagged("setLineup", { LineupRequest("u1", Lineup442Alt, 3, 8, TargetAbsent) })
    \cup Tagged("setCaptainVice",
                { [user |-> "u1", own |-> TRUE, captain |-> 4, viceCaptain |-> NoPlayer] })
    \cup Tagged("makeTransfers", { TransferRequest("u1", TRUE, << Pair(7, 17) >>),
                                   TransferRequest("u1", TRUE, << Pair(12, 18) >>) })
    \cup Tagged("substitutePlayers", { [user |-> "u1", own |-> TRUE, out |-> 6, in |-> 7] })
    \cup Tagged("editFantasyTeam",
                { [user |-> "u1", own |-> TRUE, hasPlayers |-> TRUE, players |-> AltSquad] })

\* No overlapping request has been taken yet
NoConcurrency == DOMAIN inflight = {} /\ DOMAIN done = {}

\* The next request in order of arrival
NextTicket == Cardinality(DOMAIN inflight) + Cardinality(DOMAIN done) + 1

\* The handler of a request of the given kind, run on the document it loaded
Serve(kind, r, doc) ==
  LET upcoming == getUpcomingGameweek(deadline, now)
  IN CASE kind = "setLineup" ->
            setLineupResult(doc, r.user, r.startingPlayerIds, r.captain, r.viceCaptain,
                            r.target, upcoming, upcoming, deadline, now)
       [] kind = "setCaptainVice" ->
            setCaptainViceResult(doc, r.user, r.captain, r.viceCaptain)
       [] kind = "makeTransfers" ->
            makeTransfersResult(doc, r.user, r.transfers, upcoming, deadline, now, price)
       [] kind = "substitutePlayers" ->
            substitutePlayersResult(doc, r.user, r.out, r.in)
       [] kind = "editFantasyTeam" ->
            editFantasyTeamResult(doc, r.user, r.hasPlayers, r.players, upcoming,
                                  deadline, now, price)

\* `team.players = ...` in makeTransfers (line 430), editFantasyTeam (line 222)
\* and substitutePlayers (line 1231): the whole array is sent, and the save
\* checks and increments the document version
ArrayAssigned(kind, loaded, out) ==
  kind \in {"makeTransfers", "editFantasyTeam", "substitutePlayers"}
    /\ out.players # loaded.players

\* `entry.isStarting = ...` in setLineup (lines 586-591): the entries changed
\* are sent by position, and the save checks the document version
PositionalSet(kind, loaded, out) ==
  kind = "setLineup" /\ out.players # loaded.players

\* team.save() finds that the stored version is not the one loaded
VersionConflict(stored, loaded, out, kind) ==
  (ArrayAssigned(kind, loaded, out) \/ PositionalSet(kind, loaded, out))
    /\ stored.ver # loaded.ver

\* team.save() of the document `out` a handler holds, loaded as `loaded`:
\* the paths the handler changed are written over the stored document
Save(stored, loaded, out, kind) ==
  [f \in DOMAIN stored |->
     IF f = "players"
     THEN IF ArrayAssigned(kind, loaded, out) THEN out.players
          ELSE IF PositionalSet(kind, loaded, out)
          THEN [p \in DOMAIN stored.players |->
                  IF out.players[p].isStarting # loaded.players[p].isStarting
                  THEN [stored.players[p] EXCEPT !.isStarting = out.players[p].isStarting]
                  ELSE stored.players[p]]
          ELSE stored.players
     ELSE IF f = "lineupSnapshots"
     THEN IF kind \in {"setCaptainVice", "substitutePlayers"}
          THEN MapSet(stored.lineupSnapshots, DefaultKey, out.lineupSnapshots[DefaultKey])
          ELSE stored.lineupSnapshots
     ELSE IF f = "transfers"
     THEN [g \in DOMAIN stored.transfers |->
             IF out.transfers[g] # loaded.transfers[g] THEN out.transfers[g]
             ELSE stored.transfers[g]]
     ELSE IF f = "ver"
     THEN IF ArrayAssigned(kind, loaded, out) THEN stored.ver + 1 ELSE stored.ver
     ELSE IF out[f] # loaded[f] THEN out[f] ELSE stored[f]]

\* Setting up: requests served one at a time
ConcSetupCreate == NoConcurrency /\ CreateFantasyTeam(ConcCreates, ConcLimits)
ConcSetupLineup == NoConcurrency /\ SetLineup(ConcLineups, ConcLimits)

\* createFantasyTeam up to `FantasyTeam.findOne({ user:userId})` (line 154)
ConcLoadCreate ==
  \E q \in ConcCreateRequests :
    /\ run.pc = "idle"
    /\ NextTicket <= MaxConcurrent
    /\ inflight' = inflight @@
                     (NextTicket :> [ kind |-> q.kind, r |-> q.r, id |-> 0,
                                      loaded |-> [found |-> HasTeam(teams, q.r.user)] ])
    /\ UNCHANGED <<teams, now, deadline, resp, price, league, run, history, done, harness>>

\* createFantasyTeam from line 155 on: the check on what was found, the
\* validation, `ft.save()`
ConcFinishCreate ==
  \E k \in DOMAIN inflight :
    LET e == inflight[k]
        out == createFantasyTeamResult(e.loaded.found, e.r.user, e.r.players, e.r.budget,
                                       deadline, now, price)
        id == NextTeamId(teams)
    IN /\ e.kind = "createFantasyTeam"
       /\ teams' = IF out.status = 201 THEN teams @@ (id :> out.team) ELSE teams
       /\ applied' = IF out.status = 201
                     THEN applied @@ (id :> [g \in Gameweeks |-> 0]) ELSE applied
       /\ inflight' = [j \in DOMAIN inflight \ {k} |-> inflight[j]]
       /\ done' = done @@ (k :> [ kind |-> e.kind, r |-> e.r,
                                  id |-> IF out.status = 201 THEN id ELSE 0,
                                  loaded |-> e.loaded, status |-> out.status ])
       /\ UNCHANGED <<now, deadline, resp, price, league, run, lastRun, harness>>

\* A roster handler up to `FantasyTeam.findById(fantasyTeamId)`
ConcLoad ==
  \E q \in ConcTeamRequests : \E id \in TargetsOf(teams, q.r) :
    /\ run.pc = "idle"
    /\ NextTicket <= MaxConcurrent
    /\ inflight' = inflight @@
                     (NextTicket :> [kind |-> q.kind, r |-> q.r, id |-> id,
                                     loaded |-> teams[id]])
    /\ UNCHANGED <<teams, now, deadline, resp, price, league, run, history, done, harness>>

\* A roster handler from its checks to `team.save()`: a version conflict
\* makes the save throw and the request answer 500
ConcFinish ==
  \E k \in DOMAIN inflight :
    LET e == inflight[k]
        out == Serve(e.kind, e.r, e.loaded)
        conflict == out.status = 200 /\ VersionConflict(teams[e.id], e.loaded, out.team, e.kind)
        status == IF conflict THEN 500 ELSE out.status
    IN /\ e.kind # "createFantasyTeam"
       /\ teams' = IF status = 200
                   THEN [teams EXCEPT ![e.id] = Save(@, e.loaded, out.team, e.kind)]
                   ELSE teams
       /\ applied' = IF status = 200 /\ e.kind = "makeTransfers"
                     THEN [applied EXCEPT
                             ![e.id][getUpcomingGameweek(deadline, now)] = @ + Len(e.r.transfers)]
                     ELSE applied
       /\ inflight' = [j \in DOMAIN inflight \ {k} |-> inflight[j]]
       /\ done' = done @@ (k :> [ kind |-> e.kind, r |-> e.r, id |-> e.id,
                                  loaded |-> e.loaded, status |-> status ])
       /\ UNCHANGED <<now, deadline, resp, price, league, run, lastRun, harness>>

NextConc ==
  \/ ConcSetupCreate
  \/ ConcSetupLineup
  \/ ConcLoadCreate
  \/ ConcFinishCreate
  \/ ConcLoad
  \/ ConcFinish

ConcSpec == Init /\ [][NextConc]_vars

\* C8 (one team per user): in every reachable state, overlapping
\* createFantasyTeam requests included, no user owns more than one fantasy
\* team, and a creation request that found a team of its user creates nothing.
C8_OneTeamPerUser ==
  /\ \A u \in Users : Cardinality({id \in DOMAIN teams : teams[id].user = u}) <= 1
  /\ \A k \in DOMAIN done :
       (done[k].kind = "createFantasyTeam" /\ done[k].loaded.found) => done[k].status # 201

\* A document without its version counter
Unversioned(doc) == [doc EXCEPT !.ver = 0]

\* The stored documents that serving the requests S one after the other, in
\* any order, leaves from doc
RECURSIVE SerialOutcomes(_, _)
SerialOutcomes(doc, S) ==
  IF S = {} THEN {Unversioned(doc)}
  ELSE UNION { SerialOutcomes(Persist(doc, Serve(done[k].kind, done[k].r, doc)), S \ {k}) :
               k \in S }

\* C9 (per-team serialization): once the overlapping requests on a team have
\* all answered, the stored team is what serving the successful ones one
\* after the other, in some order, leaves from the document the first of
\* them loaded.
C9_SerialOutcome ==
  DOMAIN inflight = {} =>
    \A id \in DOMAIN teams :
      LET mine == {k \in DOMAIN done : done[k].kind # "createFantasyTeam" /\ done[k].id = id}
          ok == {k \in mine : done[k].status = 200}
      IN mine # {} =>
           Unversioned(teams[id]) \in SerialOutcomes(done[Min(mine)].loaded, ok)

-----------------------------------------------------------------------------
(* Match updates on their own: the goal log, the team references and the
   result text of match 2, with one fantasy team for the pipeline to serve *)

MaxMatchOps == 4

MatchLimits == [ops |-> MaxMatchOps, refused |-> MaxRefused]

MatchCreates == { [user |-> "u1", players |-> BaseSquad, budget |-> 150] }

MatchSpecUpdates ==
  { \* a goal for the home side, a goal for the away side
    [NoUpdate(TRUE, 2) EXCEPT !.goals = << Goal("home", 13, 10, FALSE) >>],
    [NoUpdate(TRUE, 2) EXCEPT !.goals = << Goal("away", 14, NoPlayer, FALSE) >>],
    \* the away team replaced by another team, and by the home team itself
    [NoUpdate(TRUE, 2) EXCEPT !.hasAwayTeam = TRUE, !.awayTeam = "E"],
    [NoUpdate(TRUE, 2) EXCEPT !.hasAwayTeam = TRUE, !.awayTeam = "C"],
    \* a result text in the payload
    [NoUpdate(TRUE, 2) EXCEPT !.hasResult = TRUE, !.result = "9-9"],
    \* lineups and full time; full time taken back
    [NoUpdate(TRUE, 2) EXCEPT !.hasLineups = TRUE, !.home = {5, 10, 13}, !.away = {8, 11, 14},
                              !.hasFulltime = TRUE, !.fulltime = TRUE],
    [NoUpdate(TRUE, 2) EXCEPT !.hasFulltime = TRUE, !.fulltime = FALSE],
    \* a goal and a card in one request
    [NoUpdate(TRUE, 2) EXCEPT !.goals = << Goal("home", 13, NoPlayer, FALSE) >>,
                              !.cards = << [player |-> 8, type |-> "Yellow"] >>],
    \* not an admin
    [NoUpdate(FALSE, 2) EXCEPT !.goals = << Goal("home", 13, NoPlayer, FALSE) >>] }

NextMatch ==
  \/ CreateFantasyTeam(MatchCreates, MatchLimits)
  \/ UpdateMatch(MatchSpecUpdates, MatchLimits)
  \/ PipelinePlayers
  \/ PipelineTeam
  \/ PipelineFlag
  \/ PipelineCommit
  \/ PipelineFail

MatchSpec == Init /\ [][NextMatch]_vars

\* Goals of the log booked for a team
GoalsFor(match, teamId) == Cardinality({i \in DOMAIN match.goals : match.goals[i].team = teamId})

\* C11 (match score invariant): in every stored state of every match,
\* homeScore is the number of goals of the log whose beneficiary is the home
\* team, awayScore the number whose beneficiary is the away team, and result
\* is the text homeScore-awayScore, also after a team reference was changed.
C11_ScoreFromGoalLog ==
  \A m \in Matches :
    /\ matches[m].homeScore = GoalsFor(matches[m], matches[m].homeTeam)
    /\ matches[m].awayScore = GoalsFor(matches[m], matches[m].awayTeam)
    /\ matches[m].result = ResultText(matches[m].homeScore, matches[m].awayScore)

\* The table in which every match that is at full time was counted once
RECURSIVE CountedOnce(_, _)
CountedOnce(ms, todo) ==
  IF todo = {} THEN [t \in RealTeams |-> NewStanding]
  ELSE LET m == Min(todo)
           rest == CountedOnce(ms, todo \ {m})
       IN IF ms[m].fulltime THEN StandingsAfter(rest, ms[m]) ELSE rest

\* C39 (standings counted once per match): after any sequence of updateMatch
\* calls, also ones that set fulltime back to false and then to true again,
\* each real-world team's matchesPlayed is the number of its matches at full
\* time, and its wins, draws, losses, league points and goals for and against
\* count each match at full time exactly once.
\* Stated for the states in which every match still has the two teams it was
\* scheduled with.
C39_StandingsCountedOnce ==
  (\A m \in Matches : /\ matches[m].homeTeam = MatchHome[m]
                      /\ matches[m].awayTeam = MatchAway[m])
    => standings = CountedOnce(matches, Matches)

\* C12 (no goals after full time): a step that serves an updateMatch request
\* carrying goals for a match whose fulltime flag is set answers with a
\* rejection and leaves every match (goal log, scores, cards, substitutions)
\* and every player's statistics as they were.
C12_NoGoalsAfterFulltime ==
  [][ \A u \in MatchSpecUpdates :
        ( /\ UpdateMatchWith(u, MatchLimits)
          /\ Len(u.goals) > 0
          /\ matches[u.match].fulltime )
        => (resp'.status >= 400 /\ matches' = matches /\ stats' = stats
              /\ standings' = standings /\ run' = run) ]_vars

\* Goals were refused for a match at full time that has goals and points
C12_Witness ==
  /\ resp.op = "updateMatch"
  /\ resp.reason = "GoalsAfterFulltime"
  /\ matches[resp.target].fulltime
  /\ Len(matches[resp.target].goals) > 0
  /\ matches[resp.target].fantasyProcessed

\* The requests that change a roster, its lineup or its captain
RosterOperations ==
  {"setLineup", "substitutePlayers", "setCaptainVice", "makeTransfers", "editFantasyTeam"}

\* What a run of the pipeline on the match of gameweek g as it stands awards
\* the team: nothing to a team that is not active for g yet (fantasy.js
\* lines 947-982)
AwardFor(ft, match, g) ==
  LET scored == DOMAIN PlayerPoints(match) \cap DOMAIN ft.players
  IN IF ft.effectiveGameweek # NoGameweek /\ ft.effectiveGameweek > g THEN 0
     ELSE SumOver(scored, [q \in scored |-> WorthToTeam(ft, match, q)])

\* C36 (lineup in force at the deadline): the points a team earns from a
\* match of gameweek G come from the starting set and the captain the team
\* had at G's deadline: no roster operation accepted at or after G's
\* deadline (set-lineup, substitute, set-captain, transfers, squad
\* replacement) changes the points the team earns from G's matches.
C36_LineupAtDeadline ==
  [][ ( /\ resp'.seq # resp.seq
        /\ resp'.op \in RosterOperations
        /\ resp'.status = 200 )
      => \A m \in Matches :
           LET g == ResolveGameweek(m, matches[m])
           IN (g # NoGameweek /\ deadline[g] # NoDeadline /\ now >= deadline[g])
                => AwardFor(teams'[resp'.target], matches[m], g)
                     = AwardFor(teams[resp'.target], matches[m], g) ]_vars

\* C37 (effective gameweek never excludes active weeks): a team that is
\* active for gameweek G (effectiveGameweek <= G) stays active for G after
\* every operation, setLineup with a later gameweek number as target
\* included.
C37_StaysActive ==
  [][ \A id \in DOMAIN teams : \A g \in Gameweeks :
        (teams[id].effectiveGameweek # NoGameweek /\ teams[id].effectiveGameweek <= g)
          => /\ teams'[id].effectiveGameweek # NoGameweek
             /\ teams'[id].effectiveGameweek <= g ]_vars

\* C29 (no upcoming gameweek): while no gameweek has a deadline in the
\* future, a squad replacement (editFantasyTeam), a transfer (makeTransfers)
\* and a lineup set for a gameweek number (setLineup) are each rejected and
\* leave the team as it was.
C29_NoUpcomingGameweek ==
  [][ getUpcomingGameweek(deadline, now) = NoGameweek =>
        /\ EditFantasyTeam(EditRequests, Limits) => resp'.status >= 400 /\ teams' = teams
        /\ MakeTransfers(TransferRequests, Limits) => resp'.status >= 400 /\ teams' = teams
        /\ \A r \in LineupRequests :
             (r.target > 0 /\ SetLineup({r}, Limits))
               => resp'.status >= 400 /\ teams' = teams ]_vars

-----------------------------------------------------------------------------
(* The pipeline under fair scheduling: a run that updateMatch has started
   takes its next step unless it throws; the requests of MatchSpec are
   finitely many, and so are the runs that can fail *)

MatchLiveSpec ==
  /\ Init
  /\ [][NextMatch]_vars
  /\ WF_vars(PipelinePlayers)
  /\ WF_vars(PipelineTeam)
  /\ WF_vars(PipelineFlag)
  /\ WF_vars(PipelineCommit)

\* C26 (eventual processing): every match that is marked full time
\* eventually has fantasyProcessed = true: a pipeline run that fails after
\* the fulltime flag was committed is run again.
C26_EventualProcessing ==
  \A m \in Matches : matches[m].fulltime ~> matches[m].fantasyProcessed

-----------------------------------------------------------------------------
(* Squad management: two managers, one with a team, requests that name a
   player twice, break the team cap or address the other manager's team *)

MaxRosterOps == 6

RosterLimits == [ops |-> MaxRosterOps, refused |-> MaxRefused]

\* player 14 named twice, player 15 left out
DupSquad == [BaseSquad EXCEPT ![15] = 14]

\* goalkeeper 16 of team A for goalkeeper 2: four players of team A
CapSquad == [BaseSquad EXCEPT ![2] = 16]

RosterCreates ==
  { [user |-> "u1", players |-> BaseSquad, budget |-> 155],
    [user |-> "u1", players |-> DupSquad, budget |-> 155],
    [user |-> "u1", players |-> CapSquad, budget |-> 155] }

RosterEdits ==
  { [user |-> "u1", own |-> TRUE, hasPlayers |-> TRUE, players |-> AltSquad],
    [user |-> "u1", own |-> TRUE, hasPlayers |-> TRUE, players |-> DupSquad],
    [user |-> "u2", own |-> FALSE, hasPlayers |-> TRUE, players |-> AltSquad] }

\* ten ids only
LineupShort == << 1, 3, 4, 5, 6, 8, 9, 10, 11, 13 >>

RosterLineups ==
  { LineupRequest("u1", Lineup442, 3, 8, TargetAbsent),
    LineupRequest("u1", LineupRepeat, 13, NoPlayer, TargetDefault),
    [LineupRequest("u2", Lineup442, 3, 8, TargetAbsent) EXCEPT !.own = FALSE],
    [LineupRequest("u2", LineupShort, 3, 8, TargetAbsent) EXCEPT !.own = FALSE],
    [LineupRequest("u2", Lineup442, NoPlayer, 8, TargetAbsent) EXCEPT !.own = FALSE] }

RosterTransfers ==
  { TransferRequest("u1", TRUE, << Pair(3, 17), Pair(12, 18) >>),
    TransferRequest("u1", TRUE, << Pair(8, 18) >>),
    TransferRequest("u1", TRUE, << Pair(2, 16) >>),
    TransferRequest("u1", TRUE, << Pair(7, 17), Pair(7, 18) >>),
    TransferRequest("u1", TRUE, << Pair(7, 17), Pair(12, 17) >>),
    \* goalkeeper 1 out for defender 17, defender 7 out for goalkeeper 16
    TransferRequest("u1", TRUE, << Pair(1, 17), Pair(7, 16) >>),
    TransferRequest("u2", FALSE, << Pair(12, 18) >>) }

RosterSubstitutes ==
  { [user |-> "u1", own |-> TRUE, out |-> 6, in |-> 7],
    [user |-> "u1", own |-> TRUE, out |-> 3, in |-> 12],
    [user |-> "u1", own |-> TRUE, out |-> 1, in |-> 2],
    [user |-> "u1", own |-> TRUE, out |-> 1, in |-> 7],
    [user |-> "u1", own |-> TRUE, out |-> 19, in |-> 7],
    [user |-> "u2", own |-> FALSE, out |-> 6, in |-> 7] }

RosterCaptains ==
  { [user |-> "u1", own |-> TRUE, captain |-> 4, viceCaptain |-> 9],
    [user |-> "u2", own |-> FALSE, captain |-> 4, viceCaptain |-> NoPlayer] }

\* A goal and the final whistle for match C v D, sent by a user who is no admin
RosterUpdates ==
  { [NoUpdate(FALSE, 2) EXCEPT !.goals = << Goal("home", 13, 10, FALSE) >>,
                               !.hasFulltime = TRUE, !.fulltime = TRUE] }

NextRoster ==
  \/ CreateFantasyTeam(RosterCreates, RosterLimits)
  \/ EditFantasyTeam(RosterEdits, RosterLimits)
  \/ MakeTransfers(RosterTransfers, RosterLimits)
  \/ SetLineup(RosterLineups, RosterLimits)
  \/ SubstitutePlayers(RosterSubstitutes, RosterLimits)
  \/ SetCaptainVice(RosterCaptains, RosterLimits)
  \/ UpdateMatch(RosterUpdates, RosterLimits)

RosterSpec == Init /\ [][NextRoster]_vars

\* Roster entries whose cached real team is t
CachedFrom(roster, t) == {p \in DOMAIN roster : roster[p].team = t}

\* C15 (roster invariants): in every state reached by create, edit,
\* transfers, set-lineup, substitute and set-captain requests, every team's
\* roster has exactly 15 entries (entries are keyed by player, so no player
\* has two), and no more than 3 entries share the same cached real team.
C15_RosterInvariants ==
  \A id \in DOMAIN teams :
    /\ Cardinality(DOMAIN teams[id].players) = SQUAD_SIZE
    /\ \A t \in RealTeams : Cardinality(CachedFrom(teams[id].players, t)) <= MAX_FROM_SAME_TEAM

\* A team whose roster was changed by a transfer has just been refused a
\* batch that names a player twice or brings a fourth player of a real team
C15_Witness ==
  /\ resp.op = "makeTransfers"
  /\ resp.reason \in {"TeamCap", "RosterSizeMismatch", "IncomingNotFound"}
  /\ DOMAIN teams[resp.target].players # Range(BaseSquad)

\* A request by a user who does not own the team it addresses, or an
\* updateMatch by a user who is no admin, is being answered
NonOwnerRequest ==
  \/ \E r \in RosterEdits : ~r.own /\ EditFantasyTeam({r}, RosterLimits)
  \/ \E r \in RosterTransfers : ~r.own /\ MakeTransfers({r}, RosterLimits)
  \/ \E r \in RosterLineups : ~r.own /\ SetLineup({r}, RosterLimits)
  \/ \E r \in RosterSubstitutes : ~r.own /\ SubstitutePlayers({r}, RosterLimits)
  \/ \E r \in RosterCaptains : ~r.own /\ SetCaptainVice({r}, RosterLimits)
  \/ \E u \in RosterUpdates : ~u.admin /\ UpdateMatchWith(u, RosterLimits)

\* No team, player or match state changes in the step
NothingMutated ==
  /\ teams' = teams
  /\ stats' = stats
  /\ matches' = matches
  /\ standings' = standings
  /\ run' = run

TransfersApplied(r, id) ==
  /\ MakeTransfers({r}, RosterLimits)
  /\ resp'.target = id
  /\ resp'.status = 200

\* C18 (transfer application): after a successful makeTransfers every
\* incoming player's roster entry has the starting flag the outgoing entry of
\* its pair had, every entry not named in the batch keeps its flag, and a
\* captain or vice-captain who was transferred out is cleared (null) and
\* not replaced by the incoming player; other designations stay.
C18_TransferApplication ==
  [][ \A r \in RosterTransfers : \A id \in DOMAIN teams :
        TransfersApplied(r, id) =>
          LET old == teams[id]
              new == teams'[id]
              outs == Outs(r.transfers)
          IN /\ \A i \in DOMAIN r.transfers :
                  /\ r.transfers[i].in \in DOMAIN new.players
                  /\ r.transfers[i].out \notin DOMAIN new.players
                  /\ new.players[r.transfers[i].in].isStarting
                       = old.players[r.transfers[i].out].isStarting
             /\ \A p \in DOMAIN old.players \ outs :
                  /\ p \in DOMAIN new.players
                  /\ new.players[p].isStarting = old.players[p].isStarting
             /\ new.captain = IF old.captain \in outs THEN NoPlayer ELSE old.captain
             /\ new.viceCaptain = IF old.viceCaptain \in outs THEN NoPlayer
                                  ELSE old.viceCaptain ]_vars

\* The captain (3, a starter) went out for 17 and the benched 12 for 18: the
\* team has no captain, 17 starts, 18 is on the bench, the vice-captain stays
C18_Witness ==
  /\ resp.op = "makeTransfers"
  /\ resp.status = 200
  /\ teams[resp.target].captain = NoPlayer
  /\ teams[resp.target].viceCaptain = 8
  /\ {17, 18} \subseteq DOMAIN teams[resp.target].players
  /\ teams[resp.target].players[17].isStarting
  /\ ~teams[resp.target].players[18].isStarting

\* Starting entries of a roster whose position is one of the codes given
StartersWith(roster, codes) ==
  Cardinality({p \in DOMAIN roster : roster[p].isStarting /\ roster[p].position \in codes})

\* Eleven starters: 1 GK, 3-5 DEF, 3-5 MID, 1-3 FWD
SetLineupOf(roster) ==
  /\ Cardinality({p \in DOMAIN roster : roster[p].isStarting}) = 11
  /\ StartersWith(roster, {"GK"}) = 1
  /\ StartersWith(roster, {"CB", "LB", "RB"}) \in 3..5
  /\ StartersWith(roster, {"CM", "DM", "AM"}) \in 3..5
  /\ StartersWith(roster, {"ST", "CF", "LW", "RW"}) \in 1..3

\* C40 (transfers need a set lineup): makeTransfers succeeds only if the
\* resulting roster has exactly 11 entries flagged starting that form a valid
\* formation (1 GK, 3-5 DEF, 3-5 MID, 1-3 FWD); a team whose lineup was never
\* set, or whose squad was just replaced (all entries benched), has every
\* transfer request rejected, and every successful transfer leaves exactly
\* 11 starters.
C40_TransfersNeedLineup ==
  [][ \A r \in RosterTransfers : \A id \in DOMAIN teams :
        (MakeTransfers({r}, RosterLimits) /\ resp'.target = id) =>
          /\ resp'.status = 200 => SetLineupOf(teams'[id].players)
          /\ StartingIds(teams[id].players) = {}
               => (resp'.status >= 400 /\ teams' = teams) ]_vars

\* A transfer for a team with all fifteen entries benched was turned down for
\* its starting count
C40_Witness ==
  /\ resp.op = "makeTransfers"
  /\ resp.status = 400
  /\ resp.reason = "StartingCount"
  /\ StartingIds(teams[resp.target].players) = {}

\* The key of lineupSnapshots a setLineup request stores its snapshot under
\* (fantasy.js lines 574-578), up0 being the upcoming gameweek
SnapshotKey(target, up0) ==
  IF TargetGameweek(target, up0) = NoGameweek THEN DefaultKey
  ELSE TargetGameweek(target, up0)

\* C20 (set lineup post-state): after any accepted setLineup payload, one
\* with a repeated id included, exactly 11 roster entries are flagged
\* starting, the starters are 1 goalkeeper, 3-5 defenders, 3-5 midfielders
\* and 1-3 forwards, the captain (and the vice-captain, if given) is among
\* them, and the snapshot stored under the target key lists exactly those 11.
C20_LineupPostState ==
  [][ \A r \in RosterLineups : \A id \in DOMAIN teams :
        (SetLineup({r}, RosterLimits) /\ resp'.target = id /\ resp'.status = 200)
        => LET new == teams'[id]
               starters == StartingIds(new.players)
               key == SnapshotKey(r.target, getUpcomingGameweek(deadline, now))
           IN /\ Cardinality(starters) = 11
              /\ validateLineupCounts(new.players) = ""
              /\ new.captain = r.captain /\ new.captain \in starters
              /\ r.viceCaptain # NoPlayer => new.viceCaptain \in starters
              /\ key \in DOMAIN new.lineupSnapshots
              /\ new.lineupSnapshots[key].starting = starters ]_vars

\* C21 (substitute): substitutePlayers succeeds only if both players are on
\* the roster, a goalkeeper is swapped only with a goalkeeper, and after the
\* swap exactly 11 entries are starting in a valid formation; on success the
\* roster membership is unchanged, only the starting flags of the two named
\* entries may differ from before, and the "default" snapshot lists exactly
\* the new starting set; on rejection the team is unchanged.
C21_Substitute ==
  [][ \A r \in RosterSubstitutes : \A id \in DOMAIN teams :
        (SubstitutePlayers({r}, RosterLimits) /\ resp'.target = id)
        => LET old == teams[id]
               new == teams'[id]
               gk(q) == LineupCategory(old.players[q].position) = "GK"
           IN IF resp'.status = 200
              THEN /\ {r.out, r.in} \subseteq DOMAIN old.players
                   /\ gk(r.out) <=> gk(r.in)
                   /\ Cardinality(StartingIds(new.players)) = 11
                   /\ StartingOf(new.players, "GK") = 1
                   /\ StartingOf(new.players, "DEF") \in 3..5
                   /\ StartingOf(new.players, "MID") \in 3..5
                   /\ StartingOf(new.players, "FWD") \in 1..3
                   /\ DOMAIN new.players = DOMAIN old.players
                   /\ \A q \in DOMAIN old.players :
                        IF q \in {r.out, r.in}
                        THEN [new.players[q] EXCEPT !.isStarting = old.players[q].isStarting]
                               = old.players[q]
                        ELSE new.players[q] = old.players[q]
                   /\ DefaultKey \in DOMAIN new.lineupSnapshots
                   /\ new.lineupSnapshots[DefaultKey].starting = StartingIds(new.players)
              ELSE new = old ]_vars

\* Defender 6 went to the bench for defender 7 and the "default" snapshot
\* lists the new starting XI
C21_Witness ==
  /\ resp.op = "substitutePlayers"
  /\ resp.status = 200
  /\ ~teams[resp.target].players[6].isStarting
  /\ teams[resp.target].players[7].isStarting
  /\ DefaultKey \in DOMAIN teams[resp.target].lineupSnapshots
  /\ 7 \in teams[resp.target].lineupSnapshots[DefaultKey].starting

\* C22 (captaincy invariant): in every reachable state of a fantasy team,
\* after any sequence of set-lineup, set-captain, substitute, transfer and
\* squad-replacement requests, the captain and the vice-captain, when not
\* null, are players on the roster whose entries are flagged starting.
C22_CaptaincyInvariant ==
  \A id \in DOMAIN teams :
    \A c \in {teams[id].captain, teams[id].viceCaptain} \ {NoPlayer} :
      c \in StartingIds(teams[id].players)

-----------------------------------------------------------------------------
(* Player prices: the price updater of cronjob/cron.js and transfers made
   after it has run.  The updater works in tenths of a price unit. *)

Tenths == 10

\* PRICE_CONFIG (cron.js lines 28-36), in tenths
PriceMin == 7 * Tenths
PriceMax == 12 * Tenths
CleanSheetIncrease == 2
PerMatchMaxIncrease == 20

\* goalIncreaseForCount (cron.js lines 38-43), in tenths
goalIncreaseForCount(goals) ==
  IF goals <= 0 THEN 0 ELSE IF goals = 1 THEN 7 ELSE IF goals = 2 THEN 10 ELSE 15

\* assistIncreaseForCount (cron.js lines 45-51), in tenths
assistIncreaseForCount(assists) ==
  IF assists <= 0 THEN 0 ELSE IF assists = 1 THEN 5 ELSE IF assists = 2 THEN 8
  ELSE IF assists = 3 THEN 10 ELSE 20

\* clampPrice (cron.js lines 54-56)
clampPrice(val, min, max) == IF val < min THEN min ELSE IF val > max THEN max ELSE val

\* allPlayerIds (cron.js lines 123-130); the model has no match bench
PricedPlayers(match) ==
  ( {match.goals[i].scorer : i \in DOMAIN match.goals}
    \cup {match.goals[i].assist : i \in DOMAIN match.goals}
    \cup match.lineups.home \cup match.lineups.away
    \cup {match.substitutions[i].playerIn : i \in DOMAIN match.substitutions} )
  \cap Players

\* delta of one player (cron.js lines 139-173), in tenths
PriceDelta(match, q) ==
  LET homeGoals == Cardinality({i \in DOMAIN match.goals : match.goals[i].team = match.homeTeam})
      awayGoals == Cardinality({i \in DOMAIN match.goals : match.goals[i].team = match.awayTeam})
      conceded == IF PlayerTeam[q] = match.homeTeam THEN awayGoals
                  ELSE IF PlayerTeam[q] = match.awayTeam THEN homeGoals
                  ELSE 0
      goals == Cardinality({i \in DOMAIN match.goals : match.goals[i].scorer = q})
      assists == Cardinality({i \in DOMAIN match.goals : match.goals[i].assist = q})
      started == q \in match.lineups.home \cup match.lineups.away
      cleanSheet == IF PlayerPosition[q] \in {"GK", "CB", "LB", "RB"} /\ started /\ conceded = 0
                    THEN CleanSheetIncrease ELSE 0
      delta == cleanSheet + goalIncreaseForCount(goals) + assistIncreaseForCount(assists)
  IN IF delta > PerMatchMaxIncrease THEN PerMatchMaxIncrease ELSE delta

\* newPrice (cron.js line 181), in tenths
NewPrice(pr, match, q) == clampPrice(pr[q] * Tenths + PriceDelta(match, q), PriceMin, PriceMax)

\* A Match schema that declares the path priceUpdatesApplied
MarkPricedStored(match) == [match EXCEPT !.priceUpdatesApplied = TRUE]

\* Match.updateOne({_id}, {$set: {priceUpdatesApplied: true}}) (cron.js line
\* 202).  MatchSchema (Match.js lines 55-105) declares no path
\* priceUpdatesApplied and the update is cast by the schema, which drops the
\* paths it does not declare: the document is left as it was, without the
\* field, and {priceUpdatesApplied: {$ne: true}} goes on selecting it.
MarkPriced(match) == match

\* One match of the price updater's loop (cron.js lines 62-207): the prices
\* of the players of a finished match that is selected are raised and the
\* match is marked (see MarkPriced).  The price table holds whole units: the step is taken for
\* matches whose new prices are whole units.
PlayerPriceUpdater ==
  \E m \in Matches :
    /\ matches[m].fulltime
    /\ ~matches[m].priceUpdatesApplied
    /\ \A q \in PricedPlayers(matches[m]) : NewPrice(price, matches[m], q) % Tenths = 0
    /\ price' = [q \in DOMAIN price |->
                   IF q \in PricedPlayers(matches[m])
                   THEN NewPrice(price, matches[m], q) \div Tenths
                   ELSE price[q]]
    /\ matches' = [matches EXCEPT ![m] = MarkPriced(@)]
    /\ UNCHANGED <<teams, now, deadline, resp, stats, standings, run, history,
                   concurrent, harness>>

MaxPriceOps == 5

PriceLimits == [ops |-> MaxPriceOps, refused |-> MaxRefused]

PriceCreates == { [user |-> "u1", players |-> BaseSquad, budget |-> 155] }

PriceLineups == { LineupRequest("u1", Lineup442, 3, 8, TargetAbsent) }

PriceTransfers ==
  { TransferRequest("u1", TRUE, << Pair(7, 17) >>),
    TransferRequest("u1", TRUE, << Pair(13, 19), Pair(12, 18) >>) }

\* match C v D: two goals by forward 13 and the final whistle; match A v B:
\* the final whistle only
PriceUpdates ==
  { [NoUpdate(TRUE, 2) EXCEPT !.goals = << Goal("home", 13, NoPlayer, FALSE),
                                           Goal("home", 13, NoPlayer, FALSE) >>,
                              !.hasFulltime = TRUE, !.fulltime = TRUE],
    [NoUpdate(TRUE, 1) EXCEPT !.hasFulltime = TRUE, !.fulltime = TRUE] }

NextPrice ==
  \/ CreateFantasyTeam(PriceCreates, PriceLimits)
  \/ SetLineup(PriceLineups, PriceLimits)
  \/ MakeTransfers(PriceTransfers, PriceLimits)
  \/ UpdateMatch(PriceUpdates, PriceLimits)
  \/ PipelinePlayers
  \/ PipelineTeam
  \/ PipelineFlag
  \/ PipelineCommit
  \/ PipelineFail
  \/ PlayerPriceUpdater

PriceSpec == Init /\ [][NextPrice]_vars

\* The delta of player q summed over the matches, in tenths
DeltaOverMatches(q) ==
  SumOver(Matches, [m \in Matches |-> PriceDelta(matches[m], q)])

\* C34 (price sweep once per match): whatever the number of runs of the
\* price cron, each full-time match is processed for pricing at most once:
\* the price of a player has risen by no more than the deltas of the
\* matches, each counted once.
C34_PricedOncePerMatch ==
  \A q \in Players :
    price[q] * Tenths <= PriceList1[q] * Tenths + DeltaOverMatches(q)

\* C19 (locked price): a successful makeTransfers stamps every incoming
\* entry with the player's price at that time and leaves the locked price of
\* every roster entry not named in the batch as it was, whatever the
\* player's current price.
C19_LockedPrice ==
  [][ \A r \in PriceTransfers : \A id \in DOMAIN teams :
        (MakeTransfers({r}, PriceLimits) /\ resp'.target = id /\ resp'.status = 200)
        => /\ \A q \in Ins(r.transfers) :
                teams'[id].players[q].playerPrice = price[q]
           /\ \A q \in DOMAIN teams[id].players \ Outs(r.transfers) :
                teams'[id].players[q].playerPrice = teams[id].players[q].playerPrice ]_vars

-----------------------------------------------------------------------------
(* The scoring of one match on its own: playerPoints of computePointsForMatch
   on match C v D with the events of one update *)

ScoringLineups == { {}, {13}, {5, 10, 13}, {5, 10} }

ScoringGoals ==
  { << >>,
    << Goal("home", 13, 10, FALSE) >>,
    << Goal("home", 13, NoPlayer, FALSE) >>,
    << Goal("home", 10, 13, FALSE) >>,
    << Goal("away", 14, NoPlayer, FALSE) >>,
    << Goal("home", 13, 10, FALSE), Goal("away", 14, NoPlayer, FALSE) >>,
    << Goal("home", 13, 10, FALSE), Goal("home", 5, NoPlayer, FALSE) >> }

ScoringCards == { << >>, << [player |-> 13, type |-> "Yellow"] >>,
                  << [player |-> 5, type |-> "Red"] >> }

ScoringSubs == { << >>, << [playerIn |-> 13, playerOut |-> 10] >> }

ScoringMatches ==
  { MatchAfterUpdate(NewMatch(2, NoDate),
                     [NoUpdate(TRUE, 2) EXCEPT !.hasLineups = TRUE, !.home = h, !.away = {8, 14},
                                               !.goals = g, !.cards = c, !.substitutions = sb,
                                               !.manOftheMatch = mm]) :
      h \in ScoringLineups, g \in ScoringGoals, c \in ScoringCards, sb \in ScoringSubs,
      mm \in {NoPlayer, 10, 13} }

Scored(v) == "points" \in DOMAIN v

InitScoring ==
  /\ teams = << >>
  /\ now = 1
  /\ matches = InitialMatches
  /\ deadline = SweepFrom(1, NoDeadlines, InitialMatches)
  /\ resp = NoResponse
  /\ price = PriceList1
  /\ stats = InitialStats
  /\ standings = [t \in RealTeams |-> NewStanding]
  /\ run = Idle
  /\ applied = << >>
  /\ lastRun = NoRun
  /\ inflight = << >>
  /\ done = << >>
  /\ vIn \in ScoringMatches
  /\ vBudget = 0
  /\ vOut = NotCalled

\* playerPoints of the match at hand (fantasy.js lines 878-924)
Score ==
  /\ ~Scored(vOut)
  /\ vOut' = [points |-> PlayerPoints(vIn)]
  /\ UNCHANGED <<teams, now, deadline, resp, price, league, run, history, concurrent,
                 vIn, vBudget>>

NextScoring == Score

ScoringSpec == InitScoring /\ [][NextScoring]_vars

\* The players of the worked example in the match at hand: starters of the
\* home side without card or man-of-the-match award, the home side winning
\* without conceding
ExamplePlayers(match, cat, goals, assists) ==
  IF match.homeScore > match.awayScore /\ match.awayScore = 0
  THEN {p \in match.lineups.home \cap Players :
          /\ PlayerTeam[p] = match.homeTeam
          /\ SquadCategory(PlayerPosition[p]) = cat
          /\ Perf(match, p).goals = goals /\ Perf(match, p).assists = assists
          /\ Perf(match, p).yellowCards = 0 /\ ~Perf(match, p).redCard
          /\ ~Perf(match, p).manOfTheMatch}
  ELSE {}

\* The players a match names as scorer, assistant, carded, man of the match
\* or starter
NamedOutsideSubs(match) ==
  {q \in Players :
     \/ \E i \in DOMAIN match.goals : q \in {match.goals[i].scorer, match.goals[i].assist}
     \/ \E i \in DOMAIN match.cards : match.cards[i].player = q
     \/ match.manOftheMatch = q
     \/ q \in match.lineups.home \cup match.lineups.away}

\* The players a match names in a substitution, coming on or going off
NamedInSubs(match) ==
  {q \in Players : \E i \in DOMAIN match.substitutions :
     q \in {match.substitutions[i].playerIn, match.substitutions[i].playerOut}}

\* The players that appear as the outgoing half of a substitution and
\* nowhere else
OnlySubbedOff(match) ==
  {q \in NamedInSubs(match) \ NamedOutsideSubs(match) :
     \A i \in DOMAIN match.substitutions : match.substitutions[i].playerIn # q}

\* C33 (extractor membership): the performance map of a match holds every
\* player who scored, assisted, was carded, was man of the match, is in a
\* starting lineup or is either half of a substitution; a player who appears
\* only as the outgoing half of a substitution is in the map with
\* started = true.
C33_ExtractorMembership ==
  Scored(vOut) =>
    /\ NamedOutsideSubs(vIn) \cup NamedInSubs(vIn) \subseteq DOMAIN vOut.points
    /\ \A q \in OnlySubbedOff(vIn) : Perf(vIn, q).started

\* C13 as stated: in the example the forward gets exactly goal credit (4) +
\* appearance (2), the midfielder assist credit (3) + appearance + the small
\* clean-sheet bonus (1), the defender appearance + the larger clean-sheet
\* bonus (4).
C13_ExampleAsStated ==
  Scored(vOut) =>
    /\ \A p \in ExamplePlayers(vIn, "FWD", 1, 0) : vOut.points[p] = 4 + 2
    /\ \A p \in ExamplePlayers(vIn, "MID", 0, 1) : vOut.points[p] = 3 + 2 + 1
    /\ \A p \in ExamplePlayers(vIn, "DEF", 0, 0) : vOut.points[p] = 2 + 4

\* C13 amended: in the example each of the three also gets the bonus for the
\* team's win (3): forward 4 + 2 + 3, midfielder 3 + 2 + 1 + 3, defender
\* 2 + 4 + 3; and the points of a forward never contain a clean-sheet bonus:
\* they are appearance + 4 per goal + 3 per assist + 3 for man of the match
\* - 1 per yellow card - 3 for a red card + the team-outcome bonus, whatever
\* the goals conceded.
C13_ScoringExample ==
  Scored(vOut) =>
    /\ \A p \in ExamplePlayers(vIn, "FWD", 1, 0) : vOut.points[p] = 4 + 2 + 3
    /\ \A p \in ExamplePlayers(vIn, "MID", 0, 1) : vOut.points[p] = 3 + 2 + 1 + 3
    /\ \A p \in ExamplePlayers(vIn, "DEF", 0, 0) : vOut.points[p] = 2 + 4 + 3
    /\ \A p \in DOMAIN vOut.points :
         SquadCategory(PlayerPosition[p]) = "FWD" =>
           LET perf == Perf(vIn, p)
               outcome == OutcomeOf(vIn, PlayerTeam[p])
           IN vOut.points[p] =
                (IF perf.started THEN 2 ELSE IF perf.subOn THEN 1 ELSE 0)
                + 4 * perf.goals + 3 * perf.assists
                + (IF perf.manOfTheMatch THEN 3 ELSE 0)
                - perf.yellowCards - (IF perf.redCard THEN 3 ELSE 0)
                + (IF perf.started \/ perf.subOn
                   THEN (IF outcome = "win" THEN 3 ELSE IF outcome = "draw" THEN 2 ELSE 1)
                   ELSE 0)

\* The example itself has been scored: forward, midfielder and defender all there
C13_Witness ==
  /\ Scored(vOut)
  /\ ExamplePlayers(vIn, "FWD", 1, 0) # {}
  /\ ExamplePlayers(vIn, "MID", 0, 1) # {}
  /\ ExamplePlayers(vIn, "DEF", 0, 0) # {}

-----------------------------------------------------------------------------
(* The validator on its own *)
InitValidator ==
  /\ teams = << >>
  /\ now = 1
  /\ matches = InitialMatches
  /\ deadline = SweepFrom(1, NoDeadlines, InitialMatches)
  /\ resp = NoResponse
  /\ price \in PriceTables
  /\ stats = InitialStats
  /\ standings = [t \in RealTeams |-> NewStanding]
  /\ run = Idle
  /\ applied = << >>
  /\ lastRun = NoRun
  /\ inflight = << >>
  /\ done = << >>
  /\ vIn \in CandidateSquads
  /\ vBudget \in Budgets
  /\ vOut = NotCalled

\* One call of the validator on the harness input
Validate ==
  /\ ~Scored(vOut)
  /\ vOut' = validateAndEnrichSquad(vIn, vBudget, price)
  /\ UNCHANGED <<teams, now, deadline, resp, price, league, run, history, concurrent,
                 vIn, vBudget>>

NextValidator == Validate

ValidatorSpec == InitValidator /\ [][NextValidator]_vars

-----------------------------------------------------------------------------
(* Squad validator properties *)

\* The players of each category, read off Player.position
Goalkeepers == {1, 2, 16}
Defenders == {3, 4, 5, 6, 7, 17}
Midfielders == {8, 9, 10, 11, 12, 18}
Forwards == {13, 14, 15, 19}

\* How many places of the list sq name a player of S
Places(sq, S) == Cardinality({i \in DOMAIN sq : sq[i] \in S})

RECURSIVE ListPrice(_, _)
\* Sum of the current prices over the places of a list of existing players
ListPrice(sq, pr) ==
  IF sq = << >> THEN 0 ELSE pr[Head(sq)] + ListPrice(Tail(sq), pr)

AllExist(sq) == \A i \in DOMAIN sq : sq[i] \in Players
AllDistinct(sq) == \A i, j \in DOMAIN sq : i # j => sq[i] # sq[j]
RuleGK(sq) == Places(sq, Goalkeepers) = 2
RuleDEF(sq) == Places(sq, Defenders) \in 4..5
RuleMID(sq) == Places(sq, Midfielders) \in 4..5
RuleFWD(sq) == Places(sq, Forwards) \in 2..3
RuleCap(sq) ==
  \A t \in RealTeams : Places(sq, {p \in Players : PlayerTeam[p] = t}) <= 3
RuleBudget(sq, budget, pr) == ListPrice(sq, pr) <= budget

\* The rules of the claim, for a list of 15 candidates
RulesHold(sq, budget, pr) ==
  /\ Len(sq) = 15
  /\ AllExist(sq)
  /\ RuleGK(sq) /\ RuleDEF(sq) /\ RuleMID(sq) /\ RuleFWD(sq)
  /\ RuleCap(sq)
  /\ RuleBudget(sq, budget, pr)

\* The rule a rejection message names is one the list violates
MessageNamesViolatedRule(sq, budget, pr, msg) ==
  /\ msg = "NotFound" => ~(AllExist(sq) /\ AllDistinct(sq))
  /\ msg = "TeamCap" => ~RuleCap(sq)
  /\ msg = "GK" => ~RuleGK(sq)
  /\ msg = "DEF" => ~RuleDEF(sq)
  /\ msg = "MID" => ~RuleMID(sq)
  /\ msg = "FWD" => ~RuleFWD(sq)
  /\ msg = "Budget" => ~RuleBudget(sq, budget, pr)

\* A list of distinct existing players that violates one rule only is
\* rejected with that rule's message
SingleViolationNamed(sq, budget, pr, msg) ==
  LET bad == {r \in {"TeamCap", "GK", "DEF", "MID", "FWD", "Budget"} :
                \/ r = "TeamCap" /\ ~RuleCap(sq)
                \/ r = "GK" /\ ~RuleGK(sq)
                \/ r = "DEF" /\ ~RuleDEF(sq)
                \/ r = "MID" /\ ~RuleMID(sq)
                \/ r = "FWD" /\ ~RuleFWD(sq)
                \/ r = "Budget" /\ ~RuleBudget(sq, budget, pr)}
  IN Cardinality(bad) = 1 => msg \in bad

\* Every entry of an accepted squad carries price, position, team, bench flag
Stamped(sq, pr, out) ==
  /\ DOMAIN out.enriched = Range(sq)
  /\ \A p \in DOMAIN out.enriched :
       /\ out.enriched[p].playerPrice = pr[p]
       /\ out.enriched[p].position = PlayerPosition[p]
       /\ out.enriched[p].team = PlayerTeam[p]
       /\ out.enriched[p].isStarting = FALSE

\* C6 as stated: validateAndEnrichSquad accepts a 15-candidate list if and
\* only if all players exist, there are exactly 2 goalkeepers, each of
\* defenders, midfielders, forwards is within its band, no real team has more
\* than 3 players and the prices sum to at most the budget.
C6_AcceptsIffRules ==
  Returned(vOut) /\ Len(vIn) = 15 => (vOut.valid <=> RulesHold(vIn, vBudget, price))

\* C6 amended: validateAndEnrichSquad accepts a 15-candidate list if and only
\* if the 15 ids are distinct existing players and the composition, team-cap
\* and budget rules hold; a rejection names a violated rule, and the violated
\* rule when there is only one (a repeated or unknown id is reported as
\* "players not found"); squad 1..15 is accepted at total 148 against budget
\* 150 and rejected for budget at total 151; accepted entries are stamped
\* with price, position, team and starting = false.
C6_ValidatorContract ==
  Returned(vOut) /\ Len(vIn) = 15 =>
    /\ vOut.valid <=> (AllDistinct(vIn) /\ RulesHold(vIn, vBudget, price))
    /\ ~vOut.valid => MessageNamesViolatedRule(vIn, vBudget, price, vOut.message)
    /\ AllExist(vIn) /\ AllDistinct(vIn)
         => SingleViolationNamed(vIn, vBudget, price, vOut.message)
    /\ vOut.valid => Stamped(vIn, price, vOut)
    /\ vIn = BaseSquad /\ vBudget = 150 /\ price = PriceList1
         => vOut.valid /\ vOut.totalPrice = 148
    /\ vIn = BaseSquad /\ vBudget = 150 /\ price = PriceList2
         => vOut.message = "Budget"

\* The entries of a roster whose position is one of the codes given
WithPosition(roster, codes) ==
  Cardinality({q \in DOMAIN roster : roster[q].position \in codes})

\* 2 goalkeepers, 5 defenders, 5 midfielders and 3 forwards
Split2553(roster) ==
  /\ Cardinality(DOMAIN roster) = 15
  /\ WithPosition(roster, {"GK"}) = 2
  /\ WithPosition(roster, {"CB", "LB", "RB"}) = 5
  /\ WithPosition(roster, {"CM", "DM", "AM"}) = 5
  /\ WithPosition(roster, {"ST", "CF", "LW", "RW"}) = 3

\* C38 (squad composition is unique): every squad validateAndEnrichSquad
\* accepts, and so every stored roster after create, squad replacement or
\* transfers, has exactly 2 goalkeepers, 5 defenders, 5 midfielders and 3
\* forwards; no other split of 15 players is accepted.
C38_UniqueComposition ==
  /\ (Returned(vOut) /\ vOut.valid) => Split2553(vOut.enriched)
  /\ \A id \in DOMAIN teams : Split2553(teams[id].players)

\* The validator has accepted a squad other than 1..15: the spare goalkeeper
\* for goalkeeper 1
C38_Witness ==
  /\ Returned(vOut) /\ vOut.valid
  /\ 16 \in DOMAIN vOut.enriched /\ 1 \notin DOMAIN vOut.enriched

\* C6 witness: the validator has accepted a squad whose total equals its budget
C6_Witness ==
  Returned(vOut) /\ vOut.valid /\ vOut.totalPrice = 148 /\ vBudget = 148

-----------------------------------------------------------------------------
(* The gameweek resolver on every Gameweek collection of up to three
   gameweeks, every table of deadlines and every clock reading *)

\* The deadlines of a collection: null or a clock reading per gameweek
DeadlineTables(gws) ==
  {dl \in [Gameweeks -> 0..MaxTime] : \A g \in Gameweeks \ gws : dl[g] = NoDeadline}

\* getUpcomingGameweek() has answered
Resolved(v) == "upcoming" \in DOMAIN v

InitGameweek ==
  /\ teams = << >>
  /\ now \in 0..MaxTime
  /\ matches = InitialMatches
  /\ vIn \in SUBSET Gameweeks
  /\ deadline \in DeadlineTables(vIn)
  /\ resp = NoResponse
  /\ price = PriceList1
  /\ stats = InitialStats
  /\ standings = [t \in RealTeams |-> NewStanding]
  /\ run = Idle
  /\ applied = << >>
  /\ lastRun = NoRun
  /\ inflight = << >>
  /\ done = << >>
  /\ vBudget = 0
  /\ vOut = NotCalled

\* One call of getUpcomingGameweek() on the collection vIn
Upcoming ==
  /\ ~Resolved(vOut)
  /\ vOut' = [upcoming |-> FirstOpenIn(vIn, deadline, now)]
  /\ UNCHANGED <<teams, now, deadline, resp, price, league, run, history, concurrent,
                 vIn, vBudget>>

\* createFantasyTeam by a user without a team, at creation time `now`
CreateAt ==
  \E r \in QuotaCreates :
    LET out == createFantasyTeamIn(vIn, HasTeam(teams, r.user), r.user, r.players,
                                   r.budget, deadline, now, price)
        id == NextTeamId(teams)
    IN /\ ~HasTeam(teams, r.user)
       /\ teams' = IF out.status = 201 THEN teams @@ (id :> out.team) ELSE teams
       /\ resp' = Respond("createFantasyTeam", IF out.status = 201 THEN id ELSE 0,
                          out.status, out.reason)
       /\ UNCHANGED <<now, deadline, price, league, run, history, concurrent, harness>>

NextGameweek == Upcoming \/ CreateAt

GameweekSpec == InitGameweek /\ [][NextGameweek]_vars

\* The gameweeks of the collection whose deadline is set and strictly later
\* than t
OpenAfter(gws, dl, t) == {g \in gws : dl[g] # NoDeadline /\ t < dl[g]}

\* The value the effective gameweek is to have for creation time t
EffectiveFor(gws, dl, t) ==
  IF OpenAfter(gws, dl, t) # {}
    THEN CHOOSE g \in OpenAfter(gws, dl, t) : \A h \in OpenAfter(gws, dl, t) : g <= h
  ELSE IF gws # {}
    THEN (CHOOSE g \in gws : \A h \in gws : h <= g) + 1
  ELSE NoGameweek

\* C27 (effective gameweek): a team created at time t has, as effectiveGameweek
\* and as transfers.lastResetGw, the lowest-numbered gameweek whose deadline
\* is set and strictly later than t; when there is none, the highest
\* gameweek number plus one; when no gameweek exists, null. It has used no
\* transfer.
C27_EffectiveGameweek ==
  \A id \in DOMAIN teams :
    /\ teams[id].effectiveGameweek = EffectiveFor(vIn, deadline, now)
    /\ teams[id].transfers.lastResetGw = EffectiveFor(vIn, deadline, now)
    /\ teams[id].transfers.freeTransfersUsedInGw = 0

\* C27 witness: a team created at the deadline of gameweek 2, with gameweek 1
\* undated and gameweek 3 still open, takes effect in gameweek 3
C27_Witness ==
  /\ teams # << >>
  /\ vIn = {1, 2, 3} /\ deadline[1] = NoDeadline /\ deadline[2] = now
  /\ deadline[3] > now /\ teams[1].effectiveGameweek = 3

\* C28 (upcoming gameweek): for every collection of gameweeks and every
\* clock reading, getUpcomingGameweek returns the gameweek with the soonest
\* future deadline, the minimum of the deadlines strictly later than now,
\* also when deadlines do not increase with the gameweek number; it returns
\* nothing when no deadline is in the future.
C28_UpcomingGameweek ==
  Resolved(vOut) =>
    IF OpenAfter(vIn, deadline, now) = {} THEN vOut.upcoming = NoGameweek
    ELSE /\ vOut.upcoming \in OpenAfter(vIn, deadline, now)
         /\ \A g \in OpenAfter(vIn, deadline, now) :
              deadline[vOut.upcoming] <= deadline[g]

-----------------------------------------------------------------------------
(* The deadline cron while kick-off times are set and the knockout
   placeholders are filled one by one *)

MaxSweepOps == 4

SweepLimits == [ops |-> MaxSweepOps, refused |-> MaxRefused]

\* Kick-off times an admin gives
KickOffs == {2, 3, 4}

\* updateMatch with a kick-off time for a match
SweepUpdates ==
  { [NoUpdate(TRUE, m) EXCEPT !.hasDate = TRUE, !.date = d] : m \in 1..4, d \in KickOffs }

\* The league as generateFixturesAuto leaves it: no match has a kick-off
\* time, no gameweek a deadline, the knockout fixtures are placeholders
InitSweep ==
  /\ teams = << >>
  /\ now = 1
  /\ matches = [m \in Matches |-> NewMatch(m, NoDate)]
  /\ deadline = NoDeadlines
  /\ resp = NoResponse
  /\ price = PriceList1
  /\ stats = InitialStats
  /\ standings = [t \in RealTeams |-> NewStanding]
  /\ run = Idle
  /\ applied = << >>
  /\ lastRun = NoRun
  /\ inflight = << >>
  /\ done = << >>
  /\ vIn = LeagueFixtures
  /\ vBudget = 0
  /\ vOut = NotCalled

\* fillKnockoutFixtures by an admin with one pairing for a placeholder
\* (fixture.js lines 529-585): a Match is created with the date given (null
\* when the request has none) and the fixture is linked to it
FillKnockoutFixtures ==
  \E f \in DOMAIN vIn : \E d \in KickOffs \cup {NoDate} :
    LET m == Cardinality(DOMAIN matches) + 1
    IN /\ Ready(SweepLimits)
       /\ vIn[f].match = NoMatch
       /\ matches' = matches @@ (m :> [NewMatch(1, d) EXCEPT !.homeTeam = "A",
                                                              !.awayTeam = "D"])
       /\ vIn' = [vIn EXCEPT ![f].match = m]
       /\ resp' = Respond("fillKnockoutFixtures", m, 200, "")
       /\ UNCHANGED <<teams, now, deadline, price, stats, standings, run, history,
                      concurrent, vBudget, vOut>>

\* One run of the deadline cron on the Fixture collection as it is
DeadlineCron ==
  /\ run.pc = "idle"
  /\ deadline' = SweepOver(vIn, 1, deadline, matches)
  /\ deadline' # deadline
  /\ UNCHANGED <<teams, now, resp, price, league, run, history, concurrent, harness>>

NextSweep ==
  \/ UpdateMatch({u \in SweepUpdates : u.match \in DOMAIN matches}, SweepLimits)
  \/ FillKnockoutFixtures
  \/ DeadlineCron

SweepSpec == InitSweep /\ [][NextSweep]_vars

\* C30 (deadline sweep): a run of the deadline cron sets the deadline of a
\* gameweek only if that deadline is null and every fixture of the gameweek,
\* knockout placeholders without a match included, has a kick-off time; the
\* value it sets is the earliest kick-off time of the gameweek's fixtures
\* minus one hour; a deadline that is set is never modified.
C30_DeadlineSweep ==
  [][ \A g \in Gameweeks :
        /\ deadline[g] # NoDeadline => deadline'[g] = deadline[g]
        /\ deadline'[g] # deadline[g] =>
             /\ \A f \in GameweekFixtures(vIn, g) :
                  vIn[f].match # NoMatch /\ matches[vIn[f].match].date # NoDate
             /\ deadline'[g] =
                  Min({matches[vIn[f].match].date : f \in GameweekFixtures(vIn, g)})
                    - OneHour ]_vars

\* The kick-off times of the matches of gameweek g's fixtures
KickOffsOf(g) ==
  {matches[m].date : m \in FoundMatches(vIn, g)} \ {NoDate}

\* C32 (deadline consistency): in every reachable state each gameweek with a
\* non-null deadline has as deadline the earliest kick-off time of its
\* fixtures' matches minus one hour, also after an admin has changed a
\* match's kick-off date through updateMatch.
C32_DeadlineConsistency ==
  \A g \in Gameweeks :
    deadline[g] # NoDeadline =>
      /\ KickOffsOf(g) # {}
      /\ deadline[g] = Min(KickOffsOf(g)) - OneHour

-----------------------------------------------------------------------------
(* The deadline cron under its schedule: it runs every minute
   (gameweek.js line 6), so a run that would set a deadline is made *)

\* The Fixture collection when createKnockoutPlaceholders (one slot) was
\* called before the league rounds were generated: gameweek 1 is the
\* knockout placeholder, gameweeks 2 and 3 hold matches 1 and 2
\* (fixture.js lines 477-520)
KnockoutFirst == << Fixture(1, NoMatch), Fixture(2, 1), Fixture(3, 2) >>

FixtureLayouts == {LeagueFixtures, KnockoutFirst}

InitSweepLive ==
  /\ teams = << >>
  /\ now = 1
  /\ matches = [m \in Matches |-> NewMatch(m, NoDate)]
  /\ deadline = NoDeadlines
  /\ resp = NoResponse
  /\ price = PriceList1
  /\ stats = InitialStats
  /\ standings = [t \in RealTeams |-> NewStanding]
  /\ run = Idle
  /\ applied = << >>
  /\ lastRun = NoRun
  /\ inflight = << >>
  /\ done = << >>
  /\ vIn \in FixtureLayouts
  /\ vBudget = 0
  /\ vOut = NotCalled

SweepLiveSpec == InitSweepLive /\ [][NextSweep]_vars /\ WF_vars(DeadlineCron)

\* Every fixture of gameweek g has a match with a kick-off time
Scheduled(g) ==
  /\ GameweekFixtures(vIn, g) # {}
  /\ \A f \in GameweekFixtures(vIn, g) :
       vIn[f].match # NoMatch /\ matches[vIn[f].match].date # NoDate

\* C31 (deadline sweep liveness): under repeated runs of the deadline cron
\* every gameweek whose fixtures all have a match with a kick-off time
\* eventually has its deadline set, whatever other gameweeks with a null
\* deadline exist, gameweeks without any match included.
C31_SweepLiveness ==
  \A g \in Gameweeks : Scheduled(g) ~> deadline[g] # NoDeadline

====
